---- MODULE Spec2Model ----
(***************************************************************************)
(* Model of the diet-tracking application's in-memory store, its agents    *)
(* (save-meal, history, summary, goal) and the backend they talk to.       *)
(*                                                                         *)
(* Numbers are fixed-point integers in hundredths (1.00 = 100), so that    *)
(* rounding to one decimal place is visible.  A non-finite JavaScript      *)
(* number is the value NaN below; JSON serialisation turns it into Null.   *)
(* recordedAt is an integer instant; the local date of an instant t is     *)
(* DateKeyOf(t).                                                           *)
(*                                                                         *)
(* Every await of the source splits an operation into steps: the call      *)
(* (synchronous part up to the request), the backend's answer, and the     *)
(* continuation that runs when the answer is delivered.                    *)
(***************************************************************************)
EXTENDS Integers, Sequences, FiniteSets, TLC

VARIABLES
    session,          \* TRUE while a user is signed in (auth-provider status)
    clock,            \* the last instant read from the device clock, new Date()
    backend,          \* rows of the backend table "meals"
    backendGoal,      \* rows of the backend table "goals" (0 or 1 row)
    nextId,           \* next id the backend gives to an inserted row
    meals,            \* DietState.meals
    goal,             \* DietState.goal
    draftInbox,       \* DietState.draftInbox
    listeners,        \* diet-store listeners, in subscription order
    summaryListeners, \* summary-agent listeners, in subscription order
    ops,              \* operations awaiting the backend or their continuation
    calls,            \* number of agent calls started so far
    log,              \* what the last step did, in order
    last,             \* the last step and the operation it started or handled
    armed,            \* inbox model: what each store listener does when notified next
    consumed,         \* inbox model: one record per consumeDraftInbox call
    nextDraft,        \* inbox model: number of the next draft to enqueue
    foodLibrary,      \* DietState.foodLibrary
    profile,          \* DietState.profile
    notification,     \* DietState.notification
    handed,           \* the value the last read handed to its caller
    gw,               \* analysis gateway: the request in progress and its outcome
    drafts,           \* Record screen: the draft list (useState drafts)
    activeDraftId,    \* Record screen: the draft being edited, 0 for null
    counter           \* lib/id.ts: the counter createId increments

extraStoreVars == <<foodLibrary, profile, notification>>
storeVars == <<meals, goal, draftInbox, foodLibrary, profile, notification>>
inboxVars == <<armed, consumed, nextDraft>>
recordVars == <<drafts, activeDraftId, counter>>
sideVars == <<handed, gw, drafts, activeDraftId, counter>>
vars == <<session, clock, backend, backendGoal, nextId, meals, goal, draftInbox,
          listeners, summaryListeners, ops, calls, log, last, armed, consumed, nextDraft,
          foodLibrary, profile, notification, handed, gw, drafts, activeDraftId, counter>>

----------------------------------------------------------------------------
(* Bounds *)

MaxClock == 2       \* instants are 0..MaxClock
MaxRows == 2        \* rows the backend ever creates
MaxOps == 2         \* operations in flight at once
MaxCalls == 2       \* agent calls started in one behaviour
MaxDrafts == 3      \* drafts ever enqueued (inbox model)
MaxConsumes == 3    \* consumeDraftInbox calls recorded (inbox model)
MaxIds == 4         \* ids createId ever hands out (Record screen)
MaxOpen == 2        \* drafts in the Record screen's list at once

DayLen == 2         \* instants per local day

----------------------------------------------------------------------------
(* Numbers and macros *)

NaN == 0 - 1000000
Null == 0 - 2000000

IsFinite(v) == v # NaN /\ v # Null

Max(a, b) == IF a >= b THEN a ELSE b

\* JS addition on numbers: NaN is absorbing, null counts as 0.
Plus(a, b) ==
    IF a = NaN \/ b = NaN THEN NaN
    ELSE (IF a = Null THEN 0 ELSE a) + (IF b = Null THEN 0 ELSE b)

\* JSON.stringify of a number: NaN becomes null.
JsonNumber(v) == IF v = NaN THEN Null ELSE v

ZeroMacro == [kcal |-> 0, protein |-> 0, fat |-> 0, carbs |-> 0]

normalizeMacroValue(value) ==
    LET safe == IF IsFinite(value) THEN value ELSE 0
        nonNegative == Max(0, safe)
    IN  ((nonNegative + 5) \div 10) * 10

RECURSIVE calculateMacroFromItems(_)
calculateMacroFromItems(items) ==
    IF items = <<>> THEN ZeroMacro
    ELSE LET acc == calculateMacroFromItems(SubSeq(items, 1, Len(items) - 1))
             item == items[Len(items)]
         IN  [kcal |-> acc.kcal + normalizeMacroValue(item.kcal),
              protein |-> acc.protein + normalizeMacroValue(item.protein),
              fat |-> acc.fat + normalizeMacroValue(item.fat),
              carbs |-> acc.carbs + normalizeMacroValue(item.carbs)]

\* The plain sum of a component over an item list, as JS would add the raw values.
RECURSIVE SumOf(_, _)
SumOf(items, key) ==
    IF items = <<>> THEN 0
    ELSE Plus(SumOf(SubSeq(items, 1, Len(items) - 1), key), items[Len(items)][key])

MacroKeys == {"kcal", "protein", "fat", "carbs"}

----------------------------------------------------------------------------
(* Strings *)

\* A string is the sequence of its characters; " " is white space.  A literal of
\* the source is written as one character standing for the whole literal.
RECURSIVE TrimStart(_)
TrimStart(s) == IF s # <<>> /\ Head(s) = " " THEN TrimStart(Tail(s)) ELSE s

RECURSIVE TrimEnd(_)
TrimEnd(s) == IF s # <<>> /\ s[Len(s)] = " " THEN TrimEnd(SubSeq(s, 1, Len(s) - 1)) ELSE s

\* Mutant: the string is handed on untrimmed.
trim_none(s) == s

\* String.prototype.trim
trim(s) == TrimEnd(TrimStart(s))

\* a || b on strings: the empty string is falsy.
OrElse(a, b) == IF a = <<>> THEN b ELSE a

\* '名称未設定' (buildMealFromDraft), '新しいメニュー' (normalizeManualDraftForSave),
\* '1人前' (createManualItem, normalizeManualItems) and `食品${index + 1}`.
MenuNameUnset == <<"[name unset]">>
NewMenu == <<"[new menu]">>
OnePortion == <<"[1 portion]">>
FoodN(n) == <<"[food]", ToString(n)>>

----------------------------------------------------------------------------
(* Inputs *)

ItemGood == [name |-> <<" ", "a", " ">>, amount |-> <<"2">>,
             kcal |-> 300, protein |-> 20, fat |-> 10, carbs |-> 30]
ItemOdd == [name |-> <<" ">>, amount |-> <<" ">>,
            kcal |-> 0 - 150, protein |-> NaN, fat |-> 304, carbs |-> 0]

\* MealDraft (draftId 0: no draft)
Draft(draftId, source, menuName, originalText, items, totals) ==
    [draftId |-> draftId, menuName |-> menuName, originalText |-> originalText,
     items |-> items, totals |-> totals, source |-> source, warnings |-> <<>>]

\* Drafts the screens hand to saveMeal, item lists given as overrides, and the
\* item lists the history editor hands to updateMeal.
DraftPool == {Draft(1, "text", <<" ", "b">>, <<"b", " ">>, <<>>, ZeroMacro),
              Draft(2, "text", <<" ">>, <<>>, <<ItemOdd>>, calculateMacroFromItems(<<ItemOdd>>)),
              Draft(3, "manual", <<" ">>, <<"c">>, <<ItemGood, ItemOdd>>, ZeroMacro)}
OverridePool == {<<>>, <<ItemOdd>>}
EditPool == {<<>>, <<ItemGood>>}

Instants == 0..MaxClock
DateKeyOf(t) == t \div DayLen
DateKeys == {DateKeyOf(t) : t \in Instants}

\* lib/date.ts getUtcRangeForDateKey: the instants of local day key.
getUtcRangeForDateKey(key) == [start |-> key * DayLen, end |-> (key + 1) * DayLen]

ManualGoalMacro == [kcal |-> 160000, protein |-> 6000, fat |-> 5000, carbs |-> 20000]
AutoGoalMacro == [kcal |-> 200000, protein |-> 12500, fat |-> 5600, carbs |-> 25000]

\* Screens whose hooks subscribe to the store and to the summary.
Screens == {"record", "history"}

----------------------------------------------------------------------------
(* Sequence helpers *)

RECURSIVE SelectSeq2(_, _)
\* Array.prototype.filter with a predicate given as the set of kept values.
SelectSeq2(s, keep) ==
    IF s = <<>> THEN <<>>
    ELSE LET rest == SelectSeq2(Tail(s), keep)
         IN  IF Head(s) \in keep THEN <<Head(s)>> \o rest ELSE rest

Range(s) == {s[i] : i \in 1..Len(s)}

\* Array.prototype.sort with (a, b) => a.recordedAt.localeCompare(b.recordedAt): stable.
RECURSIVE InsertByRecordedAt(_, _)
InsertByRecordedAt(sorted, m) ==
    IF sorted = <<>> THEN <<m>>
    ELSE IF sorted[Len(sorted)].recordedAt <= m.recordedAt THEN Append(sorted, m)
    ELSE Append(InsertByRecordedAt(SubSeq(sorted, 1, Len(sorted) - 1), m), sorted[Len(sorted)])

\* Mutant: the array is left in the order it was given.
SortByRecordedAt_none(s) == s

RECURSIVE SortByRecordedAt(_)
SortByRecordedAt(s) ==
    IF s = <<>> THEN <<>>
    ELSE InsertByRecordedAt(SortByRecordedAt(SubSeq(s, 1, Len(s) - 1)), s[Len(s)])

IsSortedByRecordedAt(s) == \A i \in 1..Len(s) : \A j \in i..Len(s) : s[i].recordedAt <= s[j].recordedAt

----------------------------------------------------------------------------
(* Mapping backend rows to domain objects (lib/mappers.ts) *)

mapMealRow(row) ==
    [id |-> row.id, recordedAt |-> row.timestamp, items |-> row.foods, totals |-> row.total]

mapGoalRow(row) ==
    [id |-> "user", kcal |-> row.calories, protein |-> row.protein, fat |-> row.fat,
     carbs |-> row.carbs, source |-> "manual"]

MapRows(rows) == [i \in 1..Len(rows) |-> mapMealRow(rows[i])]

JsonItem(item) == [k \in DOMAIN item |-> IF k \in MacroKeys THEN JsonNumber(item[k]) ELSE item[k]]
JsonItems(items) == [i \in 1..Len(items) |-> JsonItem(items[i])]

----------------------------------------------------------------------------
(* The in-memory store (lib/diet-store.ts) and the summary listeners *)

createEmptyGoal == [id |-> "goal-pending", kcal |-> 0, protein |-> 0, fat |-> 0, carbs |-> 0,
                    source |-> "manual"]

\* Mutant: the initial state has the notifications switched on.
createInitialState_on ==
    [meals |-> <<>>, foodLibrary |-> <<>>, goal |-> createEmptyGoal, profile |-> <<>>,
     notification |-> [enabled |-> TRUE, times |-> <<"midnight">>], draftInbox |-> <<>>]

\* createInitialState: the store before anything was loaded.
createInitialState ==
    [meals |-> <<>>, foodLibrary |-> <<>>, goal |-> createEmptyGoal, profile |-> <<>>,
     notification |-> [enabled |-> FALSE, times |-> <<"midnight">>], draftInbox |-> <<>>]

\* state = next, for a whole DietState.
InstallState(next) ==
    /\ meals' = next.meals
    /\ foodLibrary' = next.foodLibrary
    /\ goal' = next.goal
    /\ profile' = next.profile
    /\ notification' = next.notification
    /\ draftInbox' = next.draftInbox

Ev(e, l, m, g) == [ev |-> e, l |-> l, sawMeals |-> m, sawGoal |-> g]

\* Mutant: the listeners are called last-subscribed first.
NotifyAll_reverse(kind, ls, m, g) == [i \in 1..Len(ls) |-> Ev(kind, ls[Len(ls) + 1 - i], m, g)]

\* listeners.forEach((listener) => listener()): each listener reads the store as it is then.
NotifyAll(kind, ls, m, g) == [i \in 1..Len(ls) |-> Ev(kind, ls[i], m, g)]

\* Mutant: the store listeners are called before the state is replaced.
setDietState_late(m, g) == NotifyAll("store", listeners, meals, goal) \o <<Ev("set", "-", m, g)>>

\* setDietState: state = updater(state), then every store listener.
setDietState(m, g) == <<Ev("set", "-", m, g)>> \o NotifyAll("store", listeners, m, g)

\* Mutant: nobody is notified.
invalidateSummary_none(m, g) == <<>>

invalidateSummary(m, g) == NotifyAll("summary", summaryListeners, m, g)

\* resetDietState: state = createInitialState(), then every store listener.
resetDietState == <<Ev("set", "-", <<>>, createEmptyGoal)>> \o NotifyAll("store", listeners, <<>>, createEmptyGoal)

Mark(e) == <<Ev(e, "-", meals, goal)>>

----------------------------------------------------------------------------
(* Operations in flight *)

BaseOp == [kind |-> "none", stage |-> "pending", k |-> 0, id |-> 0, date |-> 0, draftId |-> 0,
           foods |-> <<>>, total |-> ZeroMacro, timestamp |-> 0, macro |-> ZeroMacro,
           rows |-> <<>>, grows |-> <<>>, err |-> FALSE, bg |-> FALSE,
           pre |-> {}, lost |-> {}]

Pending(kind) == {op \in ops : op.kind = kind /\ op.stage = "pending"}
Answered(kind) == {op \in ops : op.kind = kind /\ op.stage = "answered"}

CanCall == session /\ calls < MaxCalls /\ Cardinality(ops) < MaxOps

\* ops is a set: a request equal to one already in flight gets the next free k.
RECURSIVE Fresh(_, _)
Fresh(op, others) == IF op \in others THEN Fresh([op EXCEPT !.k = @ + 1], others) ELSE op

\* SaveMealRequest: overrides.items is present iff hasOverride; overrides.menuName
\* and overrides.originalText are <<>> when absent and <<string>> when given.
\* caller is <<activeDraft>> when handleConfirmDraft made the request.
Request(draft, hasOverride, items, menuName, originalText, caller) ==
    [draft |-> draft, hasOverride |-> hasOverride, items |-> items, menuName |-> menuName,
     originalText |-> originalText, caller |-> caller]

NoDraftYet == Draft(0, "none", <<>>, <<>>, <<>>, ZeroMacro)
NoRequest == Request(NoDraftYet, FALSE, <<>>, <<>>, <<>>, <<>>)
NoMeal == [id |-> 0, recordedAt |-> 0, menuName |-> <<>>, originalText |-> <<>>,
           items |-> <<>>, totals |-> ZeroMacro, source |-> "none"]

\* last.meal is the meal saveMeal built in the step, NoMeal in every other step.
Step(name, op) == [step |-> name, op |-> op, req |-> NoRequest, meal |-> NoMeal]
StepReq(name, op, req) == [step |-> name, op |-> op, req |-> req, meal |-> NoMeal]
StepMeal(name, op, req, meal) == [step |-> name, op |-> op, req |-> req, meal |-> meal]

\* Nothing was handed out yet; no analysis request was made yet.
NoValue == [kind |-> "none", date |-> 0, list |-> <<>>, shared |-> <<>>, sharedGoal |-> FALSE,
            goal |-> createEmptyGoal, totals |-> ZeroMacro, diff |-> ZeroMacro, ratio |-> ZeroMacro]
IdleGateway == [stage |-> "idle"]

Init ==
    /\ session = FALSE
    /\ clock = 0
    /\ backend = {}
    /\ backendGoal = <<>>
    /\ nextId = 1
    /\ meals = <<>>
    /\ goal = createEmptyGoal
    /\ draftInbox = <<>>
    /\ listeners = <<>>
    /\ summaryListeners = <<>>
    /\ ops = {}
    /\ calls = 0
    /\ log = <<>>
    /\ last = Step("init", BaseOp)
    /\ armed = [l \in Screens |-> "none"]
    /\ consumed = <<>>
    /\ nextDraft = 1
    /\ foodLibrary = createInitialState.foodLibrary
    /\ profile = createInitialState.profile
    /\ notification = createInitialState.notification
    /\ handed = NoValue
    /\ gw = IdleGateway
    /\ drafts = <<>>
    /\ activeDraftId = 0
    /\ counter = 0

----------------------------------------------------------------------------
(* Environment: clock, session, subscriptions *)

SignIn ==
    /\ ~session
    /\ session' = TRUE
    /\ log' = <<>>
    /\ last' = Step("env", BaseOp)
    /\ UNCHANGED <<clock, backend, backendGoal, nextId, storeVars, listeners,
                   summaryListeners, ops, calls, inboxVars, sideVars>>

subscribeDietState(ls, l) == IF l \in Range(ls) THEN ls ELSE Append(ls, l)
unsubscribeDietState(ls, l) == SelectSeq2(ls, Range(ls) \ {l})

subscribeSummary(ls, l) == IF l \in Range(ls) THEN ls ELSE Append(ls, l)
unsubscribeSummary(ls, l) == SelectSeq2(ls, Range(ls) \ {l})

\* A screen mounts: useDietState and useDailySummary subscribe.
Mount(screen) ==
    /\ session
    /\ screen \notin Range(listeners)
    /\ listeners' = subscribeDietState(listeners, screen)
    /\ summaryListeners' = subscribeSummary(summaryListeners, screen)
    /\ log' = <<>>
    /\ last' = Step("env", BaseOp)
    /\ UNCHANGED <<session, clock, backend, backendGoal, nextId, storeVars, ops, calls,
                   inboxVars, sideVars>>

\* A screen unmounts: both hooks unsubscribe.
Unmount(screen) ==
    /\ screen \in Range(listeners)
    /\ listeners' = unsubscribeDietState(listeners, screen)
    /\ summaryListeners' = unsubscribeSummary(summaryListeners, screen)
    /\ log' = <<>>
    /\ last' = Step("env", BaseOp)
    /\ UNCHANGED <<session, clock, backend, backendGoal, nextId, storeVars, ops, calls,
                   inboxVars, sideVars>>

\* Any request may fail (network error, requireUserId throwing, an error from the backend).
BackendFail(op) ==
    /\ op \in ops /\ op.stage = "pending"
    /\ ops' = (ops \ {op}) \cup {[op EXCEPT !.stage = "answered", !.err = TRUE]}
    /\ log' = <<>>
    /\ last' = Step("backend", BaseOp)
    /\ UNCHANGED <<session, clock, backend, backendGoal, nextId, storeVars, listeners,
                   summaryListeners, calls, inboxVars, sideVars>>

----------------------------------------------------------------------------
(* Record screen: confirming a draft (features/record/use-record-screen.ts) *)

createManualItem == [name |-> <<>>, amount |-> OnePortion,
                     kcal |-> 0, protein |-> 0, fat |-> 0, carbs |-> 0]

normalizeManualNumber(value) == IF IsFinite(value) THEN value ELSE 0

normalizeManualItems(items) ==
    IF Len(items) = 0 THEN <<createManualItem>>
    ELSE [index \in 1..Len(items) |->
            [items[index] EXCEPT
                !.name = OrElse(trim(items[index].name), FoodN(index)),
                !.amount = OrElse(trim(items[index].amount), OnePortion),
                !.kcal = normalizeManualNumber(items[index].kcal),
                !.protein = normalizeManualNumber(items[index].protein),
                !.fat = normalizeManualNumber(items[index].fat),
                !.carbs = normalizeManualNumber(items[index].carbs)]]

\* Mutant: only the items are normalised; menu name and totals are kept.
normalizeManualDraftForSave_items(draft) ==
    [draft EXCEPT !.items = normalizeManualItems(draft.items)]

normalizeManualDraftForSave(draft) ==
    LET normalizedItems == normalizeManualItems(draft.items)
        fallbackName == IF normalizedItems # <<>> THEN normalizedItems[1].name ELSE NewMenu
        menuName == OrElse(trim(draft.menuName), fallbackName)
    IN  [draft EXCEPT !.menuName = menuName, !.originalText = menuName,
                      !.items = normalizedItems,
                      !.totals = calculateMacroFromItems(normalizedItems)]

----------------------------------------------------------------------------
(* agents/save-meal-agent.ts *)

\* a ?? b on an optional string
Coalesce(optional, b) == IF optional # <<>> THEN optional[1] ELSE b

\* now is new Date(), read when the meal is built; the id stands for
\* `temp-${draftId}` and is never sent to the backend.
buildMealFromDraft(request, now) ==
    LET mergedItems == IF request.hasOverride THEN request.items ELSE request.draft.items
    IN  [id |-> 0, recordedAt |-> now,
         menuName |-> OrElse(trim(Coalesce(request.menuName, request.draft.menuName)),
                             MenuNameUnset),
         originalText |-> trim(Coalesce(request.originalText, request.draft.originalText)),
         items |-> mergedItems,
         totals |-> calculateMacroFromItems(mergedItems),
         source |-> request.draft.source]

\* Mutant: the empty item list is not rejected.
saveMeal_nocheck(request) == \E now \in clock..MaxClock :
    LET meal == buildMealFromDraft(request, now)
        op == Fresh([BaseOp EXCEPT !.kind = "save", !.foods = meal.items,
                                   !.total = meal.totals, !.timestamp = meal.recordedAt,
                                   !.draftId = request.draft.draftId], ops)
    IN  /\ CanCall
        /\ nextId + Cardinality(Pending("save")) <= MaxRows
        /\ calls' = calls + 1
        /\ clock' = now
        /\ log' = Mark("insert")
        /\ last' = StepMeal("saveMeal", op, request, meal)
        /\ ops' = ops \cup {op}
        /\ UNCHANGED <<session, backend, backendGoal, nextId, storeVars, listeners,
                       summaryListeners, inboxVars, sideVars>>

\* saveMeal up to its first await: build, validate, issue the insert.
saveMeal(request) == \E now \in clock..MaxClock :
    LET meal == buildMealFromDraft(request, now)
        op == Fresh([BaseOp EXCEPT !.kind = "save", !.foods = meal.items,
                                   !.total = meal.totals, !.timestamp = meal.recordedAt,
                                   !.draftId = request.draft.draftId], ops)
    IN  /\ CanCall
        /\ nextId + Cardinality(Pending("save")) <= MaxRows
        /\ calls' = calls + 1
        /\ clock' = now
        /\ IF Len(meal.items) = 0
           THEN /\ log' = Mark("throw")
                /\ last' = StepMeal("saveMeal", BaseOp, request, meal)
                /\ UNCHANGED ops
           ELSE /\ log' = Mark("insert")
                /\ last' = StepMeal("saveMeal", op, request, meal)
                /\ ops' = ops \cup {op}
        /\ UNCHANGED <<session, backend, backendGoal, nextId, storeVars, listeners,
                       summaryListeners, inboxVars, sideVars>>

SaveMealCall == \E draft \in DraftPool, hasOverride \in BOOLEAN, items \in OverridePool :
    /\ (~hasOverride => items = <<>>)
    /\ saveMeal(Request(draft, hasOverride, items, <<>>, <<>>, <<>>))

\* handleConfirmDraft: a manual draft is normalised first; saveMeal gets no overrides.
ConfirmRequest(activeDraft) ==
    LET normalizedDraft == IF activeDraft.source = "manual"
                           THEN normalizeManualDraftForSave(activeDraft) ELSE activeDraft
    IN  Request(normalizedDraft, FALSE, <<>>, <<>>, <<>>, <<activeDraft>>)

handleConfirmDraft == \E activeDraft \in DraftPool : saveMeal(ConfirmRequest(activeDraft))

\* The backend executes the insert and answers with the new row.
BackendInsert(op) ==
    LET row == [id |-> nextId, foods |-> JsonItems(op.foods), total |-> op.total,
                timestamp |-> op.timestamp]
    IN  /\ op \in Pending("save")
        /\ backend' = backend \cup {row}
        /\ nextId' = nextId + 1
        /\ ops' = (ops \ {op}) \cup {[op EXCEPT !.stage = "answered", !.rows = <<row>>]}
        /\ log' = <<>>
        /\ last' = Step("backend", BaseOp)
        /\ UNCHANGED <<session, clock, backendGoal, storeVars, listeners, summaryListeners,
                       calls, inboxVars, sideVars>>

SyncOp(dateKey, bg) == [BaseOp EXCEPT !.kind = "sync", !.date = dateKey, !.bg = bg]

\* Mutant: the store is updated optimistically from the request, error or not.
SaveMealResume_optimistic(op) ==
    /\ op \in Answered("save")
    /\ last' = Step("SaveMealResume", op)
    /\ LET saved == [id |-> 0, recordedAt |-> op.timestamp, items |-> op.foods, totals |-> op.total]
           next == Append(meals, saved)
       IN  /\ meals' = next
           /\ log' = setDietState(next, goal) \o invalidateSummary(next, goal)
                     \o <<Ev("syncStart", "-", next, goal), Ev("return", "-", next, goal)>>
           /\ ops' = (ops \ {op}) \cup {Fresh(SyncOp(DateKeyOf(saved.recordedAt), TRUE), ops)}
    /\ UNCHANGED <<session, clock, backend, backendGoal, nextId, goal, draftInbox, listeners,
                   summaryListeners, calls, inboxVars, extraStoreVars, sideVars>>

\* saveMeal after the insert was answered, up to its return to the caller.
SaveMealReturn(op) ==
    /\ op \in Answered("save")
    /\ last' = Step("SaveMealResume", op)
    /\ IF op.err \/ op.rows = <<>>
       THEN /\ log' = Mark("throw")
            /\ ops' = ops \ {op}
            /\ UNCHANGED meals
       ELSE LET saved == mapMealRow(op.rows[1])
                next == Append(meals, saved)
            IN  /\ meals' = next
                /\ log' = setDietState(next, goal) \o invalidateSummary(next, goal)
                          \o <<Ev("syncStart", "-", next, goal), Ev("return", "-", next, goal)>>
                /\ ops' = (ops \ {op}) \cup {Fresh(SyncOp(DateKeyOf(saved.recordedAt), TRUE), ops)}
    /\ UNCHANGED <<session, clock, backend, backendGoal, nextId, goal, draftInbox, listeners,
                   summaryListeners, calls, inboxVars, extraStoreVars, handed, gw>>

\* saveMeal returns to a caller that does nothing to the Record screen's state.
SaveMealResume(op) == SaveMealReturn(op) /\ UNCHANGED recordVars

----------------------------------------------------------------------------
(* agents/history-agent.ts *)

MealsOn(ms, dateKey) == {m \in Range(ms) : DateKeyOf(m.recordedAt) = dateKey}
MealsNotOn(ms, dateKey) == {m \in Range(ms) : DateKeyOf(m.recordedAt) # dateKey}

\* Mutant: a meal already in the store wins over the fetched one with the same id.
mergeMeals_keep(existing, incoming, dateKey) ==
    LET have == {m.id : m \in Range(existing)}
        kept == SelectSeq2(existing, {m \in Range(existing) :
                    DateKeyOf(m.recordedAt) # dateKey \/ m.id \in {r.id : r \in Range(incoming)}})
        added == SelectSeq2(incoming, {m \in Range(incoming) : m.id \notin have})
    IN  SortByRecordedAt(kept \o added)

mergeMeals(existing, incoming, dateKey) ==
    LET filtered == SelectSeq2(existing, MealsNotOn(existing, dateKey))
    IN  SortByRecordedAt(filtered \o incoming)

syncMealsByDate(dateKey) ==
    /\ CanCall
    /\ calls' = calls + 1
    /\ ops' = ops \cup {Fresh(SyncOp(dateKey, FALSE), ops)}
    /\ log' = Mark("select")
    /\ last' = Step("syncMealsByDate", BaseOp)
    /\ UNCHANGED <<session, clock, backend, backendGoal, nextId, storeVars, listeners,
                   summaryListeners, inboxVars, sideVars>>

\* Every order of a set of rows that .order('timestamp') may return.
OrderedByTimestamp(rows) ==
    {s \in [1..Cardinality(rows) -> rows] :
        /\ \A i, j \in DOMAIN s : i # j => s[i] # s[j]
        /\ \A i, j \in DOMAIN s : i < j => s[i].timestamp <= s[j].timestamp}

BackendSelect(op) ==
    LET range == getUtcRangeForDateKey(op.date)
        hit == {r \in backend : r.timestamp >= range.start /\ r.timestamp < range.end}
    IN  /\ op \in Pending("sync")
        /\ \E data \in OrderedByTimestamp(hit) :
              ops' = (ops \ {op}) \cup {[op EXCEPT !.stage = "answered", !.rows = data]}
        /\ log' = <<>>
        /\ last' = Step("backend", BaseOp)
        /\ UNCHANGED <<session, clock, backend, backendGoal, nextId, storeVars, listeners,
                       summaryListeners, calls, inboxVars, sideVars>>

SyncResume(op) ==
    /\ op \in Answered("sync")
    /\ last' = Step("SyncResume", op)
    /\ ops' = ops \ {op}
    /\ IF op.err
       THEN /\ log' = Mark(IF op.bg THEN "swallowed" ELSE "throw")
            /\ UNCHANGED meals
       ELSE LET next == mergeMeals(meals, MapRows(op.rows), op.date)
            IN  /\ meals' = next
                /\ log' = setDietState(next, goal) \o invalidateSummary(next, goal)
                          \o <<Ev("return", "-", next, goal)>>
    /\ UNCHANGED <<session, clock, backend, backendGoal, nextId, goal, draftInbox, listeners,
                   summaryListeners, calls, inboxVars, extraStoreVars, sideVars>>

MealIds == 1..MaxRows

Find(ms, mealId) == SelectSeq2(ms, {m \in Range(ms) : m.id = mealId})

\* The updates of an updateMeal call, in the shape of a request kept in last.
UpdateReq(updates) ==
    Request(NoDraftYet, updates.hasItems, updates.items, <<>>, <<>>, <<>>)

\* Mutant: the totals of the current meal are sent again instead of recomputed ones.
updateMeal_oldtotals(mealId, updates) ==
    LET found == Find(meals, mealId)
        current == found[1]
        nextItems == IF updates.hasItems THEN updates.items ELSE current.items
        op == Fresh([BaseOp EXCEPT !.kind = "update", !.id = mealId, !.foods = nextItems,
                                   !.total = current.totals], ops)
    IN  /\ CanCall
        /\ calls' = calls + 1
        /\ IF found = <<>>
           THEN /\ log' = Mark("throw")
                /\ last' = StepReq("updateMeal", [BaseOp EXCEPT !.id = mealId], UpdateReq(updates))
                /\ UNCHANGED ops
           ELSE /\ log' = Mark("update")
                /\ last' = StepReq("updateMeal", op, UpdateReq(updates))
                /\ ops' = ops \cup {op}
        /\ UNCHANGED <<session, clock, backend, backendGoal, nextId, storeVars, listeners,
                       summaryListeners, inboxVars, sideVars>>

\* updateMeal up to its await. updates = [hasItems, items].
updateMeal(mealId, updates) ==
    LET found == Find(meals, mealId)
        current == found[1]
        nextItems == IF updates.hasItems THEN updates.items ELSE current.items
        op == Fresh([BaseOp EXCEPT !.kind = "update", !.id = mealId, !.foods = nextItems,
                                   !.total = calculateMacroFromItems(nextItems)], ops)
    IN  /\ CanCall
        /\ calls' = calls + 1
        /\ IF found = <<>>
           THEN /\ log' = Mark("throw")
                /\ last' = StepReq("updateMeal", [BaseOp EXCEPT !.id = mealId], UpdateReq(updates))
                /\ UNCHANGED ops
           ELSE /\ log' = Mark("update")
                /\ last' = StepReq("updateMeal", op, UpdateReq(updates))
                /\ ops' = ops \cup {op}
        /\ UNCHANGED <<session, clock, backend, backendGoal, nextId, storeVars, listeners,
                       summaryListeners, inboxVars, sideVars>>

UpdateMealCall == \E mealId \in MealIds, hasItems \in BOOLEAN, items \in EditPool :
    /\ (~hasItems => items = <<>>)
    /\ updateMeal(mealId, [hasItems |-> hasItems, items |-> items])

\* update(payload).eq('id', mealId).select().single(): an error when no row matches.
BackendUpdate(op) ==
    LET hit == {r \in backend : r.id = op.id}
        old == CHOOSE r \in hit : TRUE
        row == [old EXCEPT !.foods = JsonItems(op.foods), !.total = op.total]
        \* history: fetches of this meal's date answered before this update
        mark(o) == IF o.kind = "sync" /\ o.stage = "answered" /\ ~o.err
                      /\ op.id \in {r.id : r \in Range(o.rows)}
                   THEN [o EXCEPT !.pre = @ \cup {op.id}] ELSE o
    IN  /\ op \in Pending("update")
        /\ IF hit = {}
           THEN /\ ops' = (ops \ {op}) \cup {[op EXCEPT !.stage = "answered", !.err = TRUE]}
                /\ UNCHANGED backend
           ELSE /\ backend' = (backend \ hit) \cup {row}
                /\ ops' = {mark(o) : o \in ops \ {op}}
                          \cup {[op EXCEPT !.stage = "answered", !.rows = <<row>>]}
        /\ log' = <<>>
        /\ last' = Step("backend", BaseOp)
        /\ UNCHANGED <<session, clock, backendGoal, nextId, storeVars, listeners,
                       summaryListeners, calls, inboxVars, sideVars>>

UpdateResume(op) ==
    LET updated == mapMealRow(op.rows[1])
        next == [i \in 1..Len(meals) |-> IF meals[i].id = op.id THEN updated ELSE meals[i]]
        \* history: the update was written to the store after the fetch was answered
        mark(o) == IF op.id \in o.pre /\ op.id \in {m.id : m \in Range(meals)}
                   THEN [o EXCEPT !.lost = @ \cup {op.id}] ELSE o
    IN  /\ op \in Answered("update")
        /\ last' = Step("UpdateResume", op)
        /\ IF op.err \/ op.rows = <<>>
           THEN /\ log' = Mark("throw")
                /\ ops' = ops \ {op}
                /\ UNCHANGED meals
           ELSE /\ meals' = next
                /\ log' = setDietState(next, goal) \o invalidateSummary(next, goal)
                          \o <<Ev("return", "-", next, goal)>>
                /\ ops' = {mark(o) : o \in ops \ {op}}
        /\ UNCHANGED <<session, clock, backend, backendGoal, nextId, goal, draftInbox, listeners,
                       summaryListeners, calls, inboxVars, extraStoreVars, sideVars>>

deleteMeal(mealId) ==
    LET op == Fresh([BaseOp EXCEPT !.kind = "delete", !.id = mealId], ops)
    IN  /\ CanCall
        /\ calls' = calls + 1
        /\ ops' = ops \cup {op}
        /\ log' = Mark("delete")
        /\ last' = Step("deleteMeal", op)
        /\ UNCHANGED <<session, clock, backend, backendGoal, nextId, storeVars, listeners,
                       summaryListeners, inboxVars, sideVars>>

BackendDelete(op) ==
    /\ op \in Pending("delete")
    /\ backend' = {r \in backend : r.id # op.id}
    /\ ops' = (ops \ {op}) \cup {[op EXCEPT !.stage = "answered"]}
    /\ log' = <<>>
    /\ last' = Step("backend", BaseOp)
    /\ UNCHANGED <<session, clock, backendGoal, nextId, storeVars, listeners,
                   summaryListeners, calls, inboxVars, sideVars>>

DeleteResume(op) ==
    /\ op \in Answered("delete")
    /\ last' = Step("DeleteResume", op)
    /\ ops' = ops \ {op}
    /\ IF op.err
       THEN /\ log' = Mark("throw")
            /\ UNCHANGED meals
       ELSE LET next == SelectSeq2(meals, {m \in Range(meals) : m.id # op.id})
            IN  /\ meals' = next
                /\ log' = setDietState(next, goal) \o invalidateSummary(next, goal)
                          \o <<Ev("return", "-", next, goal)>>
    /\ UNCHANGED <<session, clock, backend, backendGoal, nextId, goal, draftInbox, listeners,
                   summaryListeners, calls, inboxVars, extraStoreVars, sideVars>>

deleteMealsByDate(dateKey) ==
    LET op == Fresh([BaseOp EXCEPT !.kind = "deleteByDate", !.date = dateKey], ops)
    IN  /\ CanCall
        /\ calls' = calls + 1
        /\ ops' = ops \cup {op}
        /\ log' = Mark("delete")
        /\ last' = Step("deleteMealsByDate", op)
        /\ UNCHANGED <<session, clock, backend, backendGoal, nextId, storeVars, listeners,
                       summaryListeners, inboxVars, sideVars>>

BackendDeleteRange(op) ==
    LET range == getUtcRangeForDateKey(op.date)
    IN  /\ op \in Pending("deleteByDate")
        /\ backend' = {r \in backend : ~(r.timestamp >= range.start /\ r.timestamp < range.end)}
        /\ ops' = (ops \ {op}) \cup {[op EXCEPT !.stage = "answered"]}
        /\ log' = <<>>
        /\ last' = Step("backend", BaseOp)
        /\ UNCHANGED <<session, clock, backendGoal, nextId, storeVars, listeners,
                       summaryListeners, calls, inboxVars, sideVars>>

\* Mutant: the whole meals array is emptied.
DeleteByDateResume_all(op) ==
    /\ op \in Answered("deleteByDate")
    /\ last' = Step("DeleteByDateResume", op)
    /\ ops' = ops \ {op}
    /\ IF op.err
       THEN /\ log' = Mark("throw")
            /\ UNCHANGED meals
       ELSE /\ meals' = <<>>
            /\ log' = setDietState(<<>>, goal) \o invalidateSummary(<<>>, goal)
                      \o <<Ev("return", "-", <<>>, goal)>>
    /\ UNCHANGED <<session, clock, backend, backendGoal, nextId, goal, draftInbox, listeners,
                   summaryListeners, calls, inboxVars, extraStoreVars, sideVars>>

DeleteByDateResume(op) ==
    /\ op \in Answered("deleteByDate")
    /\ last' = Step("DeleteByDateResume", op)
    /\ ops' = ops \ {op}
    /\ IF op.err
       THEN /\ log' = Mark("throw")
            /\ UNCHANGED meals
       ELSE LET next == SelectSeq2(meals, MealsNotOn(meals, op.date))
            IN  /\ meals' = next
                /\ log' = setDietState(next, goal) \o invalidateSummary(next, goal)
                          \o <<Ev("return", "-", next, goal)>>
    /\ UNCHANGED <<session, clock, backend, backendGoal, nextId, goal, draftInbox, listeners,
                   summaryListeners, calls, inboxVars, extraStoreVars, sideVars>>

----------------------------------------------------------------------------
(* agents/goal-agent.ts *)

GoalOp(kind, macro) == Fresh([BaseOp EXCEPT !.kind = kind, !.macro = macro], ops)

GoalCall(name, op) ==
    /\ CanCall
    /\ calls' = calls + 1
    /\ ops' = ops \cup {op}
    /\ log' = Mark("request")
    /\ last' = Step(name, op)
    /\ UNCHANGED <<session, clock, backend, backendGoal, nextId, storeVars, listeners,
                   summaryListeners, inboxVars, sideVars>>

fetchGoal == GoalCall("fetchGoal", GoalOp("fetchGoal", ZeroMacro))

setManualGoal == GoalCall("setManualGoal", GoalOp("setManualGoal", ManualGoalMacro))

applyCalculatedGoal == GoalCall("applyCalculatedGoal", GoalOp("applyCalculatedGoal", AutoGoalMacro))

\* select('*').eq('user_id', userId).maybeSingle(): the row, or no row.
BackendSelectGoal(op) ==
    /\ op \in Pending("fetchGoal")
    /\ ops' = (ops \ {op}) \cup {[op EXCEPT !.stage = "answered", !.grows = backendGoal]}
    /\ log' = <<>>
    /\ last' = Step("backend", BaseOp)
    /\ UNCHANGED <<session, clock, backend, backendGoal, nextId, storeVars, listeners,
                   summaryListeners, calls, inboxVars, sideVars>>

BackendUpsertGoal(op) ==
    LET row == [calories |-> op.macro.kcal, protein |-> op.macro.protein, fat |-> op.macro.fat,
                carbs |-> op.macro.carbs]
    IN  /\ op \in Pending("setManualGoal") \cup Pending("applyCalculatedGoal")
        /\ backendGoal' = <<row>>
        /\ ops' = (ops \ {op}) \cup {[op EXCEPT !.stage = "answered", !.grows = <<row>>]}
        /\ log' = <<>>
        /\ last' = Step("backend", BaseOp)
        /\ UNCHANGED <<session, clock, backend, nextId, storeVars, listeners,
                       summaryListeners, calls, inboxVars, sideVars>>

\* setGoal(goal); notifyGoalChanged(): goal listeners (none are modelled), then the summary.
notifyGoalChanged(m, g) == invalidateSummary(m, g)

\* fetchGoal after its answer: no row leaves the store alone and returns the current goal.
FetchGoalResume(op) ==
    /\ op \in Answered("fetchGoal")
    /\ last' = Step("FetchGoalResume", op)
    /\ ops' = ops \ {op}
    /\ IF op.err
       THEN log' = Mark("throw") /\ UNCHANGED goal
       ELSE IF op.grows = <<>>
       THEN log' = Mark("return") /\ UNCHANGED goal
       ELSE LET next == mapGoalRow(op.grows[1])
            IN  /\ goal' = next
                /\ log' = setDietState(meals, next) \o notifyGoalChanged(meals, next)
                          \o <<Ev("return", "-", meals, next)>>
    /\ UNCHANGED <<session, clock, backend, backendGoal, nextId, meals, draftInbox, listeners,
                   summaryListeners, calls, inboxVars, extraStoreVars, sideVars>>

\* setManualGoal and applyCalculatedGoal after the upsert was answered.
GoalResume(op) ==
    /\ op \in Answered("setManualGoal") \cup Answered("applyCalculatedGoal")
    /\ last' = Step("GoalResume", op)
    /\ ops' = ops \ {op}
    /\ IF op.err \/ op.grows = <<>>
       THEN log' = Mark("throw") /\ UNCHANGED goal
       ELSE LET next == mapGoalRow(op.grows[1])
            IN  /\ goal' = next
                /\ log' = setDietState(meals, next) \o notifyGoalChanged(meals, next)
                          \o <<Ev("return", "-", meals, next)>>
    /\ UNCHANGED <<session, clock, backend, backendGoal, nextId, meals, draftInbox, listeners,
                   summaryListeners, calls, inboxVars, extraStoreVars, sideVars>>

----------------------------------------------------------------------------
(* providers/auth-provider.tsx *)

\* signOut up to its await.
signOut ==
    LET op == Fresh([BaseOp EXCEPT !.kind = "signOut"], ops)
    IN  /\ CanCall
        /\ calls' = calls + 1
        /\ ops' = ops \cup {op}
        /\ log' = Mark("request")
        /\ last' = Step("signOut", op)
        /\ UNCHANGED <<session, clock, backend, backendGoal, nextId, storeVars, listeners,
                       summaryListeners, inboxVars, sideVars>>

\* The session ends; onAuthStateChange delivers a null session and resets the store.
AuthSignedOut(op) ==
    /\ op \in Pending("signOut")
    /\ session' = FALSE
    /\ InstallState(createInitialState)
    /\ log' = resetDietState
    /\ ops' = (ops \ {op}) \cup {[op EXCEPT !.stage = "answered"]}
    /\ last' = Step("AuthSignedOut", op)
    /\ UNCHANGED <<clock, backend, backendGoal, nextId, listeners, summaryListeners, calls,
                   inboxVars, sideVars>>

\* signOut after its await: resetDietState() once more.
SignOutResume(op) ==
    /\ op \in Answered("signOut")
    /\ last' = Step("SignOutResume", op)
    /\ ops' = ops \ {op}
    /\ IF op.err
       THEN log' = Mark("throw") /\ UNCHANGED storeVars
       ELSE /\ InstallState(createInitialState)
            /\ log' = resetDietState
    /\ UNCHANGED <<session, clock, backend, backendGoal, nextId, listeners, summaryListeners,
                   calls, inboxVars, sideVars>>

----------------------------------------------------------------------------
(* The application *)

Next ==
    \/ SignIn
    \/ \E screen \in Screens : Mount(screen)
    \/ \E screen \in Screens : Unmount(screen)
    \/ SaveMealCall
    \/ handleConfirmDraft
    \/ \E dateKey \in DateKeys : syncMealsByDate(dateKey)
    \/ UpdateMealCall
    \/ \E mealId \in MealIds : deleteMeal(mealId)
    \/ \E dateKey \in DateKeys : deleteMealsByDate(dateKey)
    \/ fetchGoal
    \/ setManualGoal
    \/ applyCalculatedGoal
    \/ signOut
    \/ \E op \in ops : BackendFail(op)
    \/ \E op \in ops : BackendInsert(op)
    \/ \E op \in ops : BackendSelect(op)
    \/ \E op \in ops : BackendUpdate(op)
    \/ \E op \in ops : BackendDelete(op)
    \/ \E op \in ops : BackendDeleteRange(op)
    \/ \E op \in ops : BackendSelectGoal(op)
    \/ \E op \in ops : BackendUpsertGoal(op)
    \/ \E op \in ops : AuthSignedOut(op)
    \/ \E op \in ops : SaveMealResume(op)
    \/ \E op \in ops : SyncResume(op)
    \/ \E op \in ops : UpdateResume(op)
    \/ \E op \in ops : DeleteResume(op)
    \/ \E op \in ops : DeleteByDateResume(op)
    \/ \E op \in ops : FetchGoalResume(op)
    \/ \E op \in ops : GoalResume(op)
    \/ \E op \in ops : SignOutResume(op)

Spec == Init /\ [][Next]_vars

\* The application with a meal already saved and loaded: the user is signed in, the
\* backend holds one row of day 0 and the store holds the meal mapped from it.
LoadedRow == [id |-> 1, foods |-> JsonItems(<<ItemGood>>),
              total |-> calculateMacroFromItems(<<ItemGood>>), timestamp |-> 0]

InitLoaded ==
    /\ session = TRUE
    /\ clock = 0
    /\ backend = {LoadedRow}
    /\ backendGoal = <<>>
    /\ nextId = 2
    /\ meals = <<mapMealRow(LoadedRow)>>
    /\ goal = createEmptyGoal
    /\ draftInbox = <<>>
    /\ listeners = <<>>
    /\ summaryListeners = <<>>
    /\ ops = {}
    /\ calls = 0
    /\ log = <<>>
    /\ last = Step("init", BaseOp)
    /\ armed = [l \in Screens |-> "none"]
    /\ consumed = <<>>
    /\ nextDraft = 1
    /\ foodLibrary = createInitialState.foodLibrary
    /\ profile = createInitialState.profile
    /\ notification = createInitialState.notification
    /\ handed = NoValue
    /\ gw = IdleGateway
    /\ drafts = <<>>
    /\ activeDraftId = 0
    /\ counter = 0

SpecLoaded == InitLoaded /\ [][Next]_vars

----------------------------------------------------------------------------
(* Reading the store: history-agent listMealsByDate and getMeal, summary-agent *)
(* getDailySummary.  handed is what the caller received: list holds the meals, *)
(* shared[i] is the store index of the object list[i] is, or 0 when list[i] is *)
(* a copy; sharedGoal tells whether goal is the store's goal object.           *)

Abs(v) == IF v < 0 THEN 0 - v ELSE v
Min2(a, b) == IF a <= b THEN a ELSE b

\* Positions of the meals of a date, in store order: what Array.filter keeps.
RECURSIVE FilterByDate(_, _, _)
FilterByDate(ms, dateKey, i) ==
    IF i > Len(ms) THEN <<>>
    ELSE (IF DateKeyOf(ms[i].recordedAt) = dateKey THEN <<i>> ELSE <<>>)
         \o FilterByDate(ms, dateKey, i + 1)

\* cloneMeal copies the meal, its items array, every item and its totals.
cloneMeal(meal) == [meal EXCEPT !.items = [i \in DOMAIN meal.items |-> meal.items[i]],
                                !.totals = [k \in DOMAIN meal.totals |-> meal.totals[k]]]

\* Mutant: the date filter is left out.
listMealsByDate_all(ms, dateKey) ==
    LET sorted == SortByRecordedAt(ms)
    IN  [NoValue EXCEPT !.kind = "list", !.date = dateKey,
                        !.list = [i \in DOMAIN sorted |-> cloneMeal(sorted[i])],
                        !.shared = [i \in DOMAIN sorted |-> 0]]

listMealsByDate(ms, dateKey) ==
    LET at == FilterByDate(ms, dateKey, 1)
        filtered == [i \in DOMAIN at |-> ms[at[i]]]
        sorted == SortByRecordedAt(filtered)
    IN  [NoValue EXCEPT !.kind = "list", !.date = dateKey,
                        !.list = [i \in DOMAIN sorted |-> cloneMeal(sorted[i])],
                        !.shared = [i \in DOMAIN sorted |-> 0]]

getMeal(ms, mealId) ==
    LET found == Find(ms, mealId)
    IN  IF found = <<>> THEN [NoValue EXCEPT !.kind = "meal"]
        ELSE [NoValue EXCEPT !.kind = "meal", !.list = <<cloneMeal(found[1])>>, !.shared = <<0>>]

\* Mutant: the goal is subtracted from, not subtracted.
diffMacro_reversed(totals, g) ==
    [kcal |-> g.kcal - totals.kcal, protein |-> g.protein - totals.protein,
     fat |-> g.fat - totals.fat, carbs |-> g.carbs - totals.carbs]

diffMacro(totals, g) ==
    [kcal |-> totals.kcal - g.kcal, protein |-> totals.protein - g.protein,
     fat |-> totals.fat - g.fat, carbs |-> totals.carbs - g.carbs]

\* numerator / denominator in hundredths; 0 when the denominator is 0 or NaN.
divideSafe(numerator, denominator) ==
    IF denominator = 0 \/ denominator = NaN THEN 0
    ELSE IF numerator = NaN THEN NaN
    ELSE LET q == (Abs(numerator) * 100) \div Abs(denominator)
         IN  IF (numerator < 0) = (denominator < 0) THEN q ELSE 0 - q

goalValueSafe(value) == IF IsFinite(value) THEN value ELSE 0

ratioMacro(totals, g) ==
    LET clamp(value) == Min2(200, goalValueSafe(value))
    IN  [kcal |-> clamp(divideSafe(totals.kcal, g.kcal)),
         protein |-> clamp(divideSafe(totals.protein, g.protein)),
         fat |-> clamp(divideSafe(totals.fat, g.fat)),
         carbs |-> clamp(divideSafe(totals.carbs, g.carbs))]

\* meals.reduce over the totals the meals carry.
RECURSIVE SumTotals(_)
SumTotals(ms) ==
    IF ms = <<>> THEN ZeroMacro
    ELSE LET acc == SumTotals(SubSeq(ms, 1, Len(ms) - 1))
             meal == ms[Len(ms)]
         IN  [kcal |-> Plus(acc.kcal, meal.totals.kcal),
              protein |-> Plus(acc.protein, meal.totals.protein),
              fat |-> Plus(acc.fat, meal.totals.fat),
              carbs |-> Plus(acc.carbs, meal.totals.carbs)]

\* getDailySummary: meals is the filtered array of the store's own meal objects and goal
\* is the store's own goal object.
getDailySummary(ms, g, dateKey) ==
    LET at == FilterByDate(ms, dateKey, 1)
        mealsForDate == [i \in DOMAIN at |-> ms[at[i]]]
        totals == SumTotals(mealsForDate)
    IN  [kind |-> "summary", date |-> dateKey, list |-> mealsForDate, shared |-> at,
         sharedGoal |-> TRUE, goal |-> g, totals |-> totals, diff |-> diffMacro(totals, g),
         ratio |-> ratioMacro(totals, g)]

\* A read hands its value to the caller and leaves everything else alone.
Read(name, value) ==
    /\ handed' = value
    /\ log' = <<>>
    /\ last' = Step(name, BaseOp)
    /\ UNCHANGED <<session, clock, backend, backendGoal, nextId, storeVars, listeners,
                   summaryListeners, ops, calls, inboxVars, gw, recordVars>>

ListMealsByDateCall == \E dateKey \in DateKeys : Read("listMealsByDate", listMealsByDate(meals, dateKey))

GetMealCall == \E mealId \in MealIds : Read("getMeal", getMeal(meals, mealId))

GetDailySummaryCall == \E dateKey \in DateKeys :
    Read("getDailySummary", getDailySummary(meals, goal, dateKey))

ReadSteps == {"listMealsByDate", "getMeal", "getDailySummary"}

\* The caller empties the items array of a meal it was just handed: the store's meal
\* changes with it when the two are one object.
MutateHandedMeal == \E i \in DOMAIN handed.list :
    /\ last.step \in ReadSteps
    /\ handed.list[i].items # <<>>
    /\ handed' = [handed EXCEPT !.list[i].items = <<>>]
    /\ meals' = IF handed.shared[i] = 0 THEN meals
                ELSE [meals EXCEPT ![handed.shared[i]].items = <<>>]
    /\ log' = <<>>
    /\ last' = Step("Mutate", BaseOp)
    /\ UNCHANGED <<session, clock, backend, backendGoal, nextId, goal, draftInbox,
                   extraStoreVars, listeners, summaryListeners, ops, calls, inboxVars, gw, recordVars>>

\* The caller overwrites the kcal of the goal it was just handed.
MutateHandedGoal ==
    /\ last.step = "getDailySummary"
    /\ handed.goal.kcal # 100
    /\ handed' = [handed EXCEPT !.goal.kcal = 100]
    /\ goal' = IF handed.sharedGoal THEN [goal EXCEPT !.kcal = 100] ELSE goal
    /\ log' = <<>>
    /\ last' = Step("Mutate", BaseOp)
    /\ UNCHANGED <<session, clock, backend, backendGoal, nextId, meals, draftInbox,
                   extraStoreVars, listeners, summaryListeners, ops, calls, inboxVars, gw, recordVars>>

\* The store API used by the notification agent.
setNotification == \E enabled \in BOOLEAN :
    /\ session
    /\ enabled # notification.enabled
    /\ notification' = [notification EXCEPT !.enabled = enabled]
    /\ log' = setDietState(meals, goal)
    /\ last' = Step("setNotification", BaseOp)
    /\ UNCHANGED <<session, clock, backend, backendGoal, nextId, meals, goal, draftInbox,
                   foodLibrary, profile, listeners, summaryListeners, ops, calls,
                   inboxVars, sideVars>>

\* Stores the application can be in after meals were saved (in any order of completion)
\* and a goal was set from the settings form, which accepts any number.
ItemBig == [name |-> <<"x">>, amount |-> <<"1">>,
            kcal |-> 180000, protein |-> 9000, fat |-> 6000, carbs |-> 20000]
MealOf(id, t, items) ==
    mapMealRow([id |-> id, foods |-> JsonItems(items), total |-> calculateMacroFromItems(items),
                timestamp |-> t])
LibraryEntry == [id |-> 1, calories |-> 30000, protein |-> 2000, fat |-> 1000, carbs |-> 3000]
GoalRows == <<[calories |-> 160000, protein |-> 6000, fat |-> 5000, carbs |-> 20000],
              [calories |-> 0 - 160000, protein |-> 0, fat |-> 5000, carbs |-> 20000]>>
StatesPool ==
    {createInitialState,
     [meals |-> <<MealOf(1, 1, <<ItemGood>>), MealOf(2, 0, <<ItemBig>>)>>,
      foodLibrary |-> <<LibraryEntry>>, goal |-> mapGoalRow(GoalRows[2]),
      profile |-> <<[heightCm |-> 170, weightKg |-> 60]>>,
      notification |-> [enabled |-> TRUE, times |-> <<"midnight">>], draftInbox |-> <<>>],
     [meals |-> <<MealOf(2, MaxClock, <<ItemGood, ItemGood>>), MealOf(1, 0, <<ItemBig>>)>>,
      foodLibrary |-> <<>>, goal |-> mapGoalRow(GoalRows[1]), profile |-> <<>>,
      notification |-> [enabled |-> FALSE, times |-> <<"midnight">>], draftInbox |-> <<>>]}

InitStore == \E state \in StatesPool :
    /\ session = TRUE
    /\ clock = 0
    /\ backend = {}
    /\ backendGoal = <<>>
    /\ nextId = 1
    /\ meals = state.meals
    /\ goal = state.goal
    /\ draftInbox = state.draftInbox
    /\ listeners = <<>>
    /\ summaryListeners = <<>>
    /\ ops = {}
    /\ calls = 0
    /\ log = <<>>
    /\ last = Step("init", BaseOp)
    /\ armed = [l \in Screens |-> "none"]
    /\ consumed = <<>>
    /\ nextDraft = 1
    /\ foodLibrary = state.foodLibrary
    /\ profile = state.profile
    /\ notification = state.notification
    /\ handed = NoValue
    /\ gw = IdleGateway
    /\ drafts = <<>>
    /\ activeDraftId = 0
    /\ counter = 0

NextStore ==
    \/ SignIn
    \/ \E screen \in Screens : Mount(screen)
    \/ \E screen \in Screens : Unmount(screen)
    \/ ListMealsByDateCall
    \/ GetMealCall
    \/ GetDailySummaryCall
    \/ MutateHandedMeal
    \/ MutateHandedGoal
    \/ setNotification
    \/ signOut
    \/ \E op \in ops : BackendFail(op)
    \/ \E op \in ops : AuthSignedOut(op)
    \/ \E op \in ops : SignOutResume(op)

SpecStore == InitStore /\ [][NextStore]_vars

----------------------------------------------------------------------------
(* The draft inbox (lib/diet-store.ts enqueueDraft, consumeDraftInbox)       *)
(*                                                                         *)
(* Drafts are numbered in the order they are enqueued.  A store listener   *)
(* may be armed to call enqueueDraft or consumeDraftInbox the next time it *)
(* is notified, which happens inside setDietState.  The machine M carries  *)
(* the inbox, the armed listeners, the record of consume calls and the     *)
(* number of the next draft through the nested calls.                      *)

Machine == [inbox |-> draftInbox, armed |-> armed, consumed |-> consumed, next |-> nextDraft]

RECURSIVE NotifyFrom(_, _), RunListener(_, _), enqueueDraftM(_), consumeDraftInboxM(_)

\* listeners.forEach((listener) => listener()) from position i on.
NotifyFrom(M, i) ==
    IF i > Len(listeners) THEN M ELSE NotifyFrom(RunListener(M, listeners[i]), i + 1)

RunListener(M, l) ==
    IF M.armed[l] = "enq" THEN enqueueDraftM([M EXCEPT !.armed[l] = "none"])
    ELSE IF M.armed[l] = "cons" THEN consumeDraftInboxM([M EXCEPT !.armed[l] = "none"])
    ELSE M

\* enqueueDraft: setDietState(current => ({...current, draftInbox: [...inbox, draft]})).
enqueueDraftM(M) ==
    NotifyFrom([M EXCEPT !.inbox = Append(@, M.next), !.next = @ + 1], 1)

\* Mutant: the inbox is read but not cleared.
consumeDraftInboxM_keep(M) ==
    LET queued == M.inbox
        idx == Len(M.consumed) + 1
        entry == [got |-> queued, left |-> <<>>, from |-> M.next, to |-> M.next]
    IN  IF Len(queued) = 0
        THEN [M EXCEPT !.consumed = Append(@, entry)]
        ELSE LET after == NotifyFrom([M EXCEPT !.consumed = Append(@, entry)], 1)
             IN  [after EXCEPT !.consumed[idx].left = after.inbox, !.consumed[idx].to = after.next]

\* consumeDraftInbox: read the inbox, return [] when empty, else set it to [] and
\* return what was read.  Each call is recorded: got is the returned array, left the
\* inbox when the call returns, from and to the number of the next draft when the call
\* was entered and when it returned.
consumeDraftInboxM(M) ==
    LET queued == M.inbox
        idx == Len(M.consumed) + 1
        entry == [got |-> queued, left |-> <<>>, from |-> M.next, to |-> M.next]
    IN  IF Len(queued) = 0
        THEN [M EXCEPT !.consumed = Append(@, entry)]
        ELSE LET after == NotifyFrom([M EXCEPT !.inbox = <<>>, !.consumed = Append(@, entry)], 1)
             IN  [after EXCEPT !.consumed[idx].left = after.inbox, !.consumed[idx].to = after.next]

ArmedAs(b) == {l \in Screens : armed[l] = b}

\* Room for every draft and every consume record the armed listeners may still add.
InboxRoom ==
    /\ nextDraft + Cardinality(ArmedAs("enq")) <= MaxDrafts
    /\ Len(consumed) + Cardinality(ArmedAs("cons")) < MaxConsumes

InstallMachine(M) ==
    /\ draftInbox' = M.inbox
    /\ armed' = M.armed
    /\ consumed' = M.consumed
    /\ nextDraft' = M.next

\* A listener decides to enqueue or to consume when it is notified next.
Arm(l, b) ==
    /\ l \in Range(listeners)
    /\ armed[l] = "none"
    /\ InboxRoom
    /\ armed' = [armed EXCEPT ![l] = b]
    /\ log' = <<>>
    /\ last' = Step("Arm", BaseOp)
    /\ UNCHANGED <<session, clock, backend, backendGoal, nextId, storeVars, listeners,
                   summaryListeners, ops, calls, consumed, nextDraft, sideVars>>

enqueueDraft ==
    /\ session
    /\ InboxRoom
    /\ InstallMachine(enqueueDraftM(Machine))
    /\ log' = <<>>
    /\ last' = Step("enqueueDraft", BaseOp)
    /\ UNCHANGED <<session, clock, backend, backendGoal, nextId, meals, goal, listeners,
                   summaryListeners, ops, calls, extraStoreVars, sideVars>>

consumeDraftInbox ==
    /\ session
    /\ InboxRoom
    /\ InstallMachine(consumeDraftInboxM(Machine))
    /\ log' = <<>>
    /\ last' = Step("consumeDraftInbox", BaseOp)
    /\ UNCHANGED <<session, clock, backend, backendGoal, nextId, meals, goal, listeners,
                   summaryListeners, ops, calls, extraStoreVars, sideVars>>

NextInbox ==
    \/ SignIn
    \/ \E screen \in Screens : Mount(screen)
    \/ \E screen \in Screens : Unmount(screen)
    \/ \E l \in Screens, b \in {"enq", "cons"} : Arm(l, b)
    \/ enqueueDraft
    \/ consumeDraftInbox

SpecInbox == Init /\ [][NextInbox]_vars

----------------------------------------------------------------------------
(* The analysis gateway (lib/openai.ts requestMealAnalysis and                *)
(* requestMealImageAnalysis)                                                 *)
(*                                                                         *)
(* A text is modelled by what the gateway looks at: whether it is empty,   *)
(* whether it is wrapped in a ``` fence (closed, with or without "json",   *)
(* or never closed), whether what is inside is JSON, and the JSON value.   *)

JsonNull == [type |-> "null", menuName |-> "", items |-> [kind |-> "absent", elems |-> <<>>]]

\* What the assistant may put under "items": nothing, a string, or an array of items.
ItemsPool == {[kind |-> "absent", elems |-> <<>>],
              [kind |-> "string", elems |-> <<>>],
              [kind |-> "array", elems |-> <<>>],
              [kind |-> "array", elems |-> <<ItemOdd>>],
              [kind |-> "array", elems |-> <<ItemGood, ItemOdd>>]}

JsonValues == {JsonNull, [JsonNull EXCEPT !.type = "number"]}
              \cup {[type |-> "object", menuName |-> n, items |-> it] :
                        n \in {"", "curry"}, it \in ItemsPool}

Fences == {"none", "json", "plain", "open"}
EmptyText == [fence |-> "none", syntax |-> "empty", value |-> JsonNull]
Texts == {[fence |-> f, syntax |-> "invalid", value |-> JsonNull] : f \in Fences}
         \cup {[fence |-> f, syntax |-> "valid", value |-> v] : f \in Fences, v \in JsonValues}

TextPart(t) == [type |-> "text", text |-> t]
ImagePart == [type |-> "image_url", text |-> EmptyText]

\* data?.choices?.[0]?.message?.content of a reply.
ContentPool ==
    {[form |-> "missing", parts |-> <<>>], [form |-> "other", parts |-> <<>>],
     [form |-> "string", parts |-> <<TextPart(EmptyText)>>], [form |-> "parts", parts |-> <<>>],
     [form |-> "parts", parts |-> <<ImagePart>>]}
    \cup {[form |-> "string", parts |-> <<TextPart(t)>>] : t \in Texts}
    \cup {[form |-> "parts", parts |-> <<ImagePart, [type |-> "output_text", text |-> t]>>] :
              t \in {u \in Texts : u.fence = "none"}}

NoContent == [form |-> "missing", parts |-> <<>>]

\* What fetch settles with: a rejection, or a response with a status, a body text and,
\* when the body is JSON, the content of the first choice.
ResponsePool ==
    {[kind |-> "reject", status |-> 0, body |-> "", json |-> FALSE, content |-> NoContent]}
    \cup {[kind |-> "http", status |-> st, body |-> "denied", json |-> FALSE, content |-> NoContent] :
              st \in {401, 500}}
    \cup {[kind |-> "http", status |-> 200, body |-> "<html>", json |-> FALSE, content |-> NoContent]}
    \cup {[kind |-> "http", status |-> 200, body |-> "{...}", json |-> TRUE, content |-> c] :
              c \in ContentPool}

NoResponse == [kind |-> "none", status |-> 0, body |-> "", json |-> FALSE, content |-> NoContent]

NoError == [type |-> "", prefix |-> "", status |-> 0, body |-> ""]
NoDraft == [menuName |-> "", source |-> "", items |-> <<>>, totals |-> ZeroMacro]
NoOutcome == [kind |-> "none", error |-> NoError, draft |-> NoDraft]
ReturnNull == [NoOutcome EXCEPT !.kind = "null"]
Throw(type, prefix, status, body) ==
    [NoOutcome EXCEPT !.kind = "throw",
                      !.error = [type |-> type, prefix |-> prefix, status |-> status, body |-> body]]

NewGateway(apiKey) ==
    [stage |-> "idle", apiKey |-> apiKey, fn |-> "", base64 |-> FALSE, requested |-> FALSE,
     response |-> NoResponse, outcome |-> NoOutcome]

\* response.ok
Ok(status) == status >= 200 /\ status <= 299

\* Mutant: the fence is left around the JSON.
extractJson_keep(content) == content

\* extractJson: the inside of a closed fence, anything else as it is.
extractJson(content) ==
    IF content.fence \in {"json", "plain"} THEN [content EXCEPT !.fence = "none"] ELSE content

\* parseResponse: JSON.parse of the extracted text, null when it throws.
parseResponse(content) ==
    LET jsonText == extractJson(content)
    IN  IF jsonText.fence = "none" /\ jsonText.syntax = "valid" THEN jsonText.value ELSE JsonNull

sanitizeNumber(value) ==
    IF ~IsFinite(value) \/ value < 0 THEN 0 ELSE ((value + 5) \div 10) * 10

createPlaceholderItem == [kcal |-> 40000, protein |-> 2000, fat |-> 1500, carbs |-> 4500]

normalizeItems(elems) ==
    IF elems = <<>> THEN <<createPlaceholderItem>>
    ELSE [i \in DOMAIN elems |->
             [kcal |-> sanitizeNumber(elems[i].kcal), protein |-> sanitizeNumber(elems[i].protein),
              fat |-> sanitizeNumber(elems[i].fat), carbs |-> sanitizeNumber(elems[i].carbs)]]

\* extractMessageContent: null, or the text (the text parts joined by a newline).
extractMessageContent(raw) ==
    LET texts == SelectSeq(raw.parts, LAMBDA part : part.type \in {"text", "output_text"})
        joined == IF texts = <<>> THEN EmptyText
                  ELSE IF Len(texts) = 1 THEN texts[1].text
                  ELSE [fence |-> texts[1].text.fence, syntax |-> "invalid", value |-> JsonNull]
    IN  IF raw.form \in {"missing", "other"} THEN [null |-> TRUE, text |-> EmptyText]
        ELSE IF raw.form = "string" /\ raw.parts[1].text = EmptyText
             THEN [null |-> TRUE, text |-> EmptyText]
        ELSE [null |-> FALSE, text |-> joined]

\* buildDraftFromContent: null when nothing was parsed; items.map throws a TypeError
\* when "items" is not an array.
buildDraftFromContent(content, source) ==
    LET parsed == parseResponse(content)
    IN  IF parsed.type = "null" THEN ReturnNull
        ELSE IF parsed.items.kind = "string" THEN Throw("TypeError", "", 0, "")
        ELSE LET items == normalizeItems(parsed.items.elems)
             IN  [NoOutcome EXCEPT
                    !.kind = "draft",
                    !.draft = [menuName |-> IF parsed.menuName # "" THEN parsed.menuName
                                            ELSE IF source = "image" THEN "image-meal"
                                            ELSE "ai-menu",
                               source |-> source, items |-> items,
                               totals |-> calculateMacroFromItems(items)]]

\* The part of both functions after `await fetch(...)`.
AfterFetch(prefix, source, response) ==
    IF response.kind = "reject" THEN Throw("TypeError", "", 0, "")
    ELSE IF ~Ok(response.status) THEN Throw("Error", prefix, response.status, response.body)
    ELSE IF ~response.json THEN Throw("SyntaxError", "", 0, "")
    ELSE LET content == extractMessageContent(response.content)
         IN  IF content.null \/ content.text = EmptyText THEN ReturnNull
             ELSE buildDraftFromContent(content.text, source)

GatewayFree == gw.stage \in {"idle", "done"}

\* requestMealAnalysis up to its fetch.
requestMealAnalysis ==
    /\ GatewayFree
    /\ gw' = IF ~gw.apiKey
             THEN [NewGateway(gw.apiKey) EXCEPT !.stage = "done", !.fn = "requestMealAnalysis",
                                                !.outcome = ReturnNull]
             ELSE [NewGateway(gw.apiKey) EXCEPT !.stage = "fetching", !.fn = "requestMealAnalysis",
                                                !.requested = TRUE]
    /\ log' = <<>>
    /\ last' = Step("requestMealAnalysis", BaseOp)
    /\ UNCHANGED <<session, clock, backend, backendGoal, nextId, storeVars, listeners,
                   summaryListeners, ops, calls, inboxVars, handed, recordVars>>

\* requestMealImageAnalysis up to its fetch.
requestMealImageAnalysis == \E base64 \in BOOLEAN :
    /\ GatewayFree
    /\ gw' = IF ~gw.apiKey \/ ~base64
             THEN [NewGateway(gw.apiKey) EXCEPT !.stage = "done", !.fn = "requestMealImageAnalysis",
                                                !.base64 = base64, !.outcome = ReturnNull]
             ELSE [NewGateway(gw.apiKey) EXCEPT !.stage = "fetching",
                                                !.fn = "requestMealImageAnalysis",
                                                !.base64 = base64, !.requested = TRUE]
    /\ log' = <<>>
    /\ last' = Step("requestMealImageAnalysis", BaseOp)
    /\ UNCHANGED <<session, clock, backend, backendGoal, nextId, storeVars, listeners,
                   summaryListeners, ops, calls, inboxVars, handed, recordVars>>

\* fetch settles.
GatewayAnswer == \E response \in ResponsePool :
    /\ gw.stage = "fetching"
    /\ gw' = [gw EXCEPT !.stage = "answered", !.response = response]
    /\ log' = <<>>
    /\ last' = Step("GatewayAnswer", BaseOp)
    /\ UNCHANGED <<session, clock, backend, backendGoal, nextId, storeVars, listeners,
                   summaryListeners, ops, calls, inboxVars, handed, recordVars>>

\* The function continues after its await and returns or throws.
GatewayResume ==
    /\ gw.stage = "answered"
    /\ gw' = [gw EXCEPT !.stage = "done",
                        !.outcome = IF gw.fn = "requestMealAnalysis"
                                    THEN AfterFetch("OpenAI request failed", "text", gw.response)
                                    ELSE AfterFetch("OpenAI vision request failed", "image",
                                                    gw.response)]
    /\ log' = <<>>
    /\ last' = Step("GatewayResume", BaseOp)
    /\ UNCHANGED <<session, clock, backend, backendGoal, nextId, storeVars, listeners,
                   summaryListeners, ops, calls, inboxVars, handed, recordVars>>

\* The API key is fixed when the bundle is built: EXPO_PUBLIC_OPENAI_API_KEY.
InitGateway == \E apiKey \in BOOLEAN :
    /\ session = FALSE
    /\ clock = 0
    /\ backend = {}
    /\ backendGoal = <<>>
    /\ nextId = 1
    /\ meals = createInitialState.meals
    /\ goal = createInitialState.goal
    /\ draftInbox = createInitialState.draftInbox
    /\ foodLibrary = createInitialState.foodLibrary
    /\ profile = createInitialState.profile
    /\ notification = createInitialState.notification
    /\ listeners = <<>>
    /\ summaryListeners = <<>>
    /\ ops = {}
    /\ calls = 0
    /\ log = <<>>
    /\ last = Step("init", BaseOp)
    /\ armed = [l \in Screens |-> "none"]
    /\ consumed = <<>>
    /\ nextDraft = 1
    /\ handed = NoValue
    /\ gw = NewGateway(apiKey)
    /\ drafts = <<>>
    /\ activeDraftId = 0
    /\ counter = 0

NextGateway ==
    \/ requestMealAnalysis
    \/ requestMealImageAnalysis
    \/ GatewayAnswer
    \/ GatewayResume

SpecGateway == InitGateway /\ [][NextGateway]_vars

----------------------------------------------------------------------------
(* saveMeal and handleConfirmDraft applied once to every request of a pool *)

\* The item of the example: kcal 300, protein 20, fat 10, carbs 30.
ItemExample == [name |-> <<"r">>, amount |-> <<"1">>,
                kcal |-> 30000, protein |-> 2000, fat |-> 1000, carbs |-> 3000]

ExampleDraft == Draft(4, "image", <<>>, <<" ", "t", " ">>, <<ItemExample>>,
                      calculateMacroFromItems(<<ItemExample>>))

\* Manual drafts as the confirm modal holds them: at least one item, any text in
\* the fields, totals of an earlier item list.
ManualPool == {Draft(5, "manual", <<" ", "m", " ">>, <<>>, <<ItemGood>>, ZeroMacro),
               Draft(6, "manual", <<>>, <<"c">>, <<ItemOdd, ItemGood, ItemOdd>>,
                     calculateMacroFromItems(<<ItemGood>>)),
               Draft(7, "manual", <<" ">>, <<"c">>, <<ItemGood, createManualItem>>, ZeroMacro)}

\* overrides.menuName / overrides.originalText: absent, empty, or a padded text.
OptionalTexts == {<<>>, << <<>> >>, << <<" ", "n", " ", "n", " ">> >>}

SavePool == DraftPool \cup {ExampleDraft} \cup ManualPool

RequestPool ==
    {request \in {Request(draft, hasOverride, items, menuName, originalText, <<>>) :
                      draft \in SavePool, hasOverride \in BOOLEAN, items \in OverridePool,
                      menuName \in OptionalTexts, originalText \in OptionalTexts} :
        request.hasOverride \/ request.items = <<>>}

InitSave ==
    /\ session = TRUE
    /\ clock = 0
    /\ backend = {}
    /\ backendGoal = <<>>
    /\ nextId = 1
    /\ meals = <<>>
    /\ goal = createEmptyGoal
    /\ draftInbox = <<>>
    /\ listeners = <<>>
    /\ summaryListeners = <<>>
    /\ ops = {}
    /\ calls = 0
    /\ log = <<>>
    /\ last = Step("init", BaseOp)
    /\ armed = [l \in Screens |-> "none"]
    /\ consumed = <<>>
    /\ nextDraft = 1
    /\ foodLibrary = createInitialState.foodLibrary
    /\ profile = createInitialState.profile
    /\ notification = createInitialState.notification
    /\ handed = NoValue
    /\ gw = IdleGateway
    /\ drafts = <<>>
    /\ activeDraftId = 0
    /\ counter = 0

SaveMealOnce == calls = 0 /\ \E request \in RequestPool : saveMeal(request)

ConfirmOnce == calls = 0 /\ \E activeDraft \in SavePool : saveMeal(ConfirmRequest(activeDraft))

NextSave ==
    \/ SaveMealOnce
    \/ ConfirmOnce
    \/ \E op \in ops : BackendFail(op)
    \/ \E op \in ops : BackendInsert(op)
    \/ \E op \in ops : BackendSelect(op)
    \/ \E op \in ops : SaveMealResume(op)
    \/ \E op \in ops : SyncResume(op)

SpecSave == InitSave /\ [][NextSave]_vars

----------------------------------------------------------------------------
(* The Record screen (features/record/use-record-screen.ts, its confirm     *)
(* modal, agents/analyze-agent.ts and agents/food-library-agent.ts)         *)
(*                                                                         *)
(* createId is counted, and a draft's id is the count it was made at; the   *)
(* ids of items are handed out but not kept in the items, no handler reads *)
(* them.                                                                   *)

\* '推定メニュー', '画像の食事', `画像URI: ${uri}`, and the warnings of buildTextDraft
\* and buildImageDraft.
GuessedMenu == <<"[guessed menu]">>
ImageMeal == <<"[image meal]">>
ImageUri == <<"[image uri]">>
EmptyTextWarning == <<"[text is empty]">>
DummyImageWarning == <<"[image values are dummies]">>

\* Texts typed into the prompt fields; "," separates phrases.
Prompts == {<<" ">>, <<" ", "p", ",", " ">>}

\* The food library as refreshFoodLibrary loaded it.
RecordLibrary ==
    <<[id |-> 1, name |-> <<"s">>, amount |-> <<"1">>, calories |-> 12000, protein |-> 500,
       fat |-> 300, carbs |-> 1500, items |-> <<>>],
      [id |-> 2, name |-> <<"m">>, amount |-> <<"1">>, calories |-> 30000, protein |-> 2000,
       fat |-> 1000, carbs |-> 3000, items |-> <<ItemExample>>]>>

\* What the user types into a field of an item: a name, or a number as Number(value)
\* reads it (NaN for a text that is no number).
FieldEdits == <<[key |-> "kcal", value |-> 0 - 5000]>>
MenuNames == {<<>>}

\* text.split(/\n|、|,|。/) for texts whose only separator is the comma
RECURSIVE Split(_)
Split(text) ==
    IF \A i \in DOMAIN text : text[i] # ","
    THEN <<text>>
    ELSE LET i == CHOOSE i \in DOMAIN text : text[i] = "," /\ \A j \in 1..(i - 1) : text[j] # ","
         IN  <<SubSeq(text, 1, i - 1)>> \o Split(SubSeq(text, i + 1, Len(text)))

\* Math.round(kcal * rate / 100) for kcal in whole units, as hundredths.
RoundShare(kcal, rate) == (((kcal * rate) + 50) \div 100) * 100

\* createItemFromPhrase; index counts from 0.
createItemFromPhrase(phrase, index) ==
    LET kcal == 200 + (index * 50)
    IN  [name |-> phrase, amount |-> OnePortion, kcal |-> kcal * 100,
         protein |-> RoundShare(kcal, 12), fat |-> RoundShare(kcal, 8),
         carbs |-> RoundShare(kcal, 12)]

createFallbackItem(text) ==
    [name |-> text, amount |-> OnePortion, kcal |-> 40000, protein |-> 1500, fat |-> 1200,
     carbs |-> 4500]

createItemsFromText(text) ==
    LET parts == Split(text)
        trimmed == [i \in DOMAIN parts |-> trim(parts[i])]
        candidates == SelectSeq(trimmed, LAMBDA part : part # <<>>)
    IN  IF Len(candidates) = 0 THEN <<createFallbackItem(text)>>
        ELSE [i \in DOMAIN candidates |-> createItemFromPhrase(candidates[i], i - 1)]

\* The texts have one line.
guessMenuNameFromText(text) ==
    IF text = <<>> THEN NewMenu
    ELSE IF Len(text) > 15 THEN SubSeq(text, 1, 15) \o <<".", ".", ".">> ELSE text

\* buildTextDraft, called when the counter is at count: the items take their ids
\* first, the draft the next one.
buildTextDraft(prompt, count) ==
    LET normalized == trim(prompt)
        items == IF Len(normalized) = 0 THEN <<>> ELSE createItemsFromText(normalized)
    IN  [Draft(count + Len(items) + 1, "text", guessMenuNameFromText(normalized), normalized,
               items, calculateMacroFromItems(items))
         EXCEPT !.warnings = IF Len(normalized) = 0 THEN <<EmptyTextWarning>> ELSE <<>>]

buildImageDraft(count) ==
    LET items == <<[name |-> GuessedMenu, amount |-> OnePortion, kcal |-> 45000,
                    protein |-> 2000, fat |-> 1500, carbs |-> 5500]>>
    IN  [Draft(count + 2, "image", ImageMeal, ImageUri, items, calculateMacroFromItems(items))
         EXCEPT !.warnings = <<DummyImageWarning>>]

\* buildManualDraft for the form openManualModal hands it.
buildManualDraft(count) ==
    LET baseItems == <<createManualItem>>
    IN  Draft(count + 2, "manual", <<>>, <<>>, baseItems, calculateMacroFromItems(baseItems))

createBlankItem(entry) ==
    [name |-> entry.name, amount |-> entry.amount, kcal |-> entry.calories,
     protein |-> entry.protein, fat |-> entry.fat, carbs |-> entry.carbs]

UsesBlankItem(entry) == Len(entry.items) = 0

buildDraftFromEntry(entry, count) ==
    LET items == IF Len(entry.items) > 0 THEN entry.items ELSE <<createBlankItem(entry)>>
    IN  Draft(count + (IF UsesBlankItem(entry) THEN 2 ELSE 1), "library", entry.name,
              entry.name, items, calculateMacroFromItems(items))

\* drafts.find((draft) => draft.draftId === activeDraftId) ?? null, as <<>> or <<draft>>
activeDraft ==
    LET hits == {i \in DOMAIN drafts : drafts[i].draftId = activeDraftId}
    IN  IF hits = {} THEN <<>> ELSE <<drafts[CHOOSE i \in hits : \A j \in hits : i <= j]>>

FirstId(list) == IF list = <<>> THEN 0 ELSE list[1].draftId

Without(list, draftId) == SelectSeq(list, LAMBDA draft : draft.draftId # draftId)

\* The camera and the photo picker cover the screen: while one is open the user
\* reaches no control of the Record screen.
ScreenShown == session /\ \A op \in ops : op.kind # "picker"

\* What a handler of the screen leaves alone.
ScreenFrame ==
    UNCHANGED <<session, clock, backend, backendGoal, nextId, meals, goal, listeners,
                summaryListeners, ops, calls, inboxVars, extraStoreVars, handed, gw>>

Target(draftId) == [BaseOp EXCEPT !.draftId = draftId]

\* prependDraft
prependDraft(draft) ==
    /\ drafts' = <<draft>> \o drafts
    /\ activeDraftId' = draft.draftId

\* Mutant: the old items are dropped.
appendItemsToDraft_replace(draftId, newItems, warnings) ==
    drafts' = [i \in DOMAIN drafts |->
                 IF drafts[i].draftId # draftId THEN drafts[i]
                 ELSE [drafts[i] EXCEPT !.items = newItems,
                                        !.totals = calculateMacroFromItems(newItems)]]

appendItemsToDraft(draftId, newItems, warnings) ==
    drafts' = [i \in DOMAIN drafts |->
                 IF drafts[i].draftId # draftId THEN drafts[i]
                 ELSE LET mergedItems == drafts[i].items \o newItems
                          mergedWarnings == IF Len(warnings) > 0
                                            THEN drafts[i].warnings \o warnings
                                            ELSE drafts[i].warnings
                      IN  [drafts[i] EXCEPT !.items = mergedItems,
                                            !.totals = calculateMacroFromItems(mergedItems),
                                            !.warnings = mergedWarnings]]

\* Mutant: the items are replaced and the totals kept.
handleUpdateDraftItems_stale(draftId, items) ==
    drafts' = [i \in DOMAIN drafts |->
                 IF drafts[i].draftId = draftId THEN [drafts[i] EXCEPT !.items = items]
                 ELSE drafts[i]]

handleUpdateDraftItems(draftId, items) ==
    drafts' = [i \in DOMAIN drafts |->
                 IF drafts[i].draftId = draftId
                 THEN [drafts[i] EXCEPT !.items = items,
                                        !.totals = calculateMacroFromItems(items)]
                 ELSE drafts[i]]

\* analyze is a local computation: its promise is resolved when it returns, and the
\* handler goes on before any other event is handled.
handleAnalyzeText == \E inputText \in Prompts :
    LET draft == buildTextDraft(inputText, counter)
    IN  /\ ScreenShown
        /\ trim(inputText) # <<>>
        /\ draft.draftId <= MaxIds
        /\ Len(drafts) < MaxOpen
        /\ prependDraft(draft)
        /\ counter' = draft.draftId
        /\ log' = <<>>
        /\ last' = Step("handleAnalyzeText", BaseOp)
        /\ UNCHANGED draftInbox
        /\ ScreenFrame

analyzeImageAsset ==
    LET draft == buildImageDraft(counter)
    IN  /\ ScreenShown
        /\ draft.draftId <= MaxIds
        /\ Len(drafts) < MaxOpen
        /\ prependDraft(draft)
        /\ counter' = draft.draftId
        /\ log' = <<>>
        /\ last' = Step("analyzeImageAsset", BaseOp)
        /\ UNCHANGED draftInbox
        /\ ScreenFrame

openManualModal ==
    LET draft == buildManualDraft(counter)
    IN  /\ ScreenShown
        /\ draft.draftId <= MaxIds
        /\ Len(drafts) < MaxOpen
        /\ prependDraft(draft)
        /\ counter' = draft.draftId
        /\ log' = <<>>
        /\ last' = Step("openManualModal", BaseOp)
        /\ UNCHANGED draftInbox
        /\ ScreenFrame

\* handleSelectLibraryEntry: toMealDraft builds the draft, enqueues it in the store's
\* inbox and returns it; the handler prepends what it got.
handleSelectLibraryEntry == \E i \in DOMAIN foodLibrary :
    LET draft == buildDraftFromEntry(foodLibrary[i], counter)
    IN  /\ ScreenShown
        /\ draft.draftId <= MaxIds
        /\ Len(drafts) < MaxOpen
        /\ draftInbox' = Append(draftInbox, draft)
        /\ prependDraft(draft)
        /\ counter' = draft.draftId
        /\ log' = setDietState(meals, goal)
        /\ last' = Step("handleSelectLibraryEntry", BaseOp)
        /\ ScreenFrame

\* The focus effect consumes the inbox.  It also starts syncMealsByDate(today),
\* fetchGoal, fetchNotificationSetting and refreshFoodLibrary without awaiting them:
\* those calls are the agents' actions, and syncMealsByDate is taken as a step of
\* its own (FocusSync).
Focus ==
    LET queued == draftInbox
    IN  /\ ScreenShown
        /\ Len(queued) + Len(drafts) <= MaxOpen
        /\ IF Len(queued) > 0
           THEN /\ draftInbox' = <<>>
                /\ drafts' = queued \o drafts
                /\ activeDraftId' = IF activeDraftId # 0 THEN activeDraftId
                                    ELSE queued[1].draftId
                /\ log' = setDietState(meals, goal)
           ELSE /\ log' = <<>>
                /\ UNCHANGED <<draftInbox, drafts, activeDraftId>>
        /\ last' = Step("Focus", BaseOp)
        /\ UNCHANGED counter
        /\ ScreenFrame

FocusSync == ScreenShown /\ syncMealsByDate(DateKeyOf(clock))

closeDraftModal ==
    LET next == Without(drafts, activeDraftId)
    IN  /\ ScreenShown
        /\ activeDraft # <<>>
        /\ drafts' = next
        /\ activeDraftId' = FirstId(next)
        /\ log' = <<>>
        /\ last' = Step("closeDraftModal", BaseOp)
        /\ UNCHANGED <<draftInbox, counter>>
        /\ ScreenFrame

RemoveAt(items, index) == SubSeq(items, 1, index - 1) \o SubSeq(items, index + 1, Len(items))

\* createEmptyItem of the confirm modal
createEmptyItem == [name |-> <<>>, amount |-> OnePortion,
                    kcal |-> 0, protein |-> 0, fat |-> 0, carbs |-> 0]

\* Mutant: the last item goes like any other.
RemovedItems_plain(items, index) == RemoveAt(items, index)

\* The list handleRemoveItem hands to onChangeItems.
RemovedItems(items, index) ==
    LET next == RemoveAt(items, index)
    IN  IF Len(next) = 0 THEN <<createEmptyItem>> ELSE next

\* handleRemoveItem of the confirm modal; onChangeItems is
\* handleChangeActiveDraftItems.  createEmptyItem takes an id.  last.op keeps the
\* index and the items the modal showed.
handleRemoveItem == \E index \in 1..MaxIds :
    /\ ScreenShown
    /\ activeDraft # <<>>
    /\ index \in DOMAIN activeDraft[1].items
    /\ (Len(activeDraft[1].items) = 1 => counter < MaxIds)
    /\ handleUpdateDraftItems(activeDraftId, RemovedItems(activeDraft[1].items, index))
    /\ counter' = IF Len(activeDraft[1].items) = 1 THEN counter + 1 ELSE counter
    /\ log' = <<>>
    /\ last' = Step("handleRemoveItem", [Target(activeDraftId) EXCEPT
                                            !.id = index, !.foods = activeDraft[1].items])
    /\ UNCHANGED <<draftInbox, activeDraftId>>
    /\ ScreenFrame

parseManualNumber(parsed) == IF IsFinite(parsed) THEN parsed ELSE 0

\* handleChangeItemField of the confirm modal
handleChangeItemField == \E index \in 1..MaxIds, e \in DOMAIN FieldEdits :
    /\ ScreenShown
    /\ activeDraft # <<>>
    /\ index \in DOMAIN activeDraft[1].items
    /\ LET items == activeDraft[1].items
           edit == FieldEdits[e]
           value == IF edit.key \in {"name", "amount"} THEN edit.value
                    ELSE parseManualNumber(edit.value)
           next == [items EXCEPT ![index] = [k \in DOMAIN @ |->
                                               IF k = edit.key THEN value ELSE @[k]]]
       IN  handleUpdateDraftItems(activeDraftId, next)
    /\ log' = <<>>
    /\ last' = Step("handleChangeItemField", BaseOp)
    /\ UNCHANGED <<draftInbox, activeDraftId, counter>>
    /\ ScreenFrame

handleChangeActiveDraftMenuName == \E menuName \in MenuNames :
    /\ ScreenShown
    /\ activeDraftId # 0
    /\ drafts' = [i \in DOMAIN drafts |->
                    IF drafts[i].draftId = activeDraftId
                    THEN [drafts[i] EXCEPT !.menuName = menuName] ELSE drafts[i]]
    /\ log' = <<>>
    /\ last' = Step("handleChangeActiveDraftMenuName", BaseOp)
    /\ UNCHANGED <<draftInbox, activeDraftId, counter>>
    /\ ScreenFrame

handleAddFoodManual ==
    /\ ScreenShown
    /\ activeDraftId # 0
    /\ counter < MaxIds
    /\ counter' = counter + 1
    /\ drafts' = [i \in DOMAIN drafts |->
                    IF drafts[i].draftId # activeDraftId THEN drafts[i]
                    ELSE LET nextItems == Append(drafts[i].items, createManualItem)
                         IN  [drafts[i] EXCEPT !.items = nextItems,
                                               !.totals = calculateMacroFromItems(nextItems)]]
    /\ log' = <<>>
    /\ last' = Step("handleAddFoodManual", BaseOp)
    /\ UNCHANGED <<draftInbox, activeDraftId>>
    /\ ScreenFrame

\* handleSubmitAiPrompt: last.req.draft is the draft analyze returned.
handleSubmitAiPrompt == \E aiPromptText \in Prompts :
    LET draft == buildTextDraft(aiPromptText, counter)
    IN  /\ ScreenShown
        /\ activeDraftId # 0
        /\ trim(aiPromptText) # <<>>
        /\ draft.draftId <= MaxIds
        /\ counter' = draft.draftId
        /\ appendItemsToDraft(activeDraftId, draft.items, draft.warnings)
        /\ log' = <<>>
        /\ last' = StepReq("appendItemsToDraft", Target(activeDraftId),
                           Request(draft, FALSE, <<>>, <<>>, <<>>, <<>>))
        /\ UNCHANGED <<draftInbox, activeDraftId>>
        /\ ScreenFrame

\* handleAddFoodImageFromCamera / FromLibrary up to the picker: the handler keeps the
\* activeDraftId of the render it was made in.
handleAddFoodImage ==
    /\ ScreenShown
    /\ activeDraftId # 0
    /\ Cardinality(ops) < MaxOps
    /\ ops' = ops \cup {Fresh([BaseOp EXCEPT !.kind = "picker", !.draftId = activeDraftId], ops)}
    /\ log' = <<>>
    /\ last' = Step("handleAddFoodImage", BaseOp)
    /\ UNCHANGED <<session, clock, backend, backendGoal, nextId, meals, goal, listeners,
                   summaryListeners, calls, inboxVars, extraStoreVars, handed, gw,
                   draftInbox, recordVars>>

\* The picker returned: without a picture (permission denied, cancelled, failed) the
\* handler returns; with one, appendImageAssetToActiveDraft analyses it and appends.
AddFoodImageResume(op) == \E picked \in BOOLEAN :
    LET draft == buildImageDraft(counter)
    IN  /\ op \in ops /\ op.kind = "picker"
        /\ (op.err => ~picked)
        /\ ops' = ops \ {op}
        /\ log' = <<>>
        /\ IF picked
           THEN /\ draft.draftId <= MaxIds
                /\ counter' = draft.draftId
                /\ appendItemsToDraft(op.draftId, draft.items, draft.warnings)
                /\ last' = StepReq("appendItemsToDraft", op,
                                   Request(draft, FALSE, <<>>, <<>>, <<>>, <<>>))
           ELSE /\ last' = Step("AddFoodImageResume", op)
                /\ UNCHANGED <<drafts, counter>>
        /\ UNCHANGED <<session, clock, backend, backendGoal, nextId, meals, goal, listeners,
                       summaryListeners, calls, inboxVars, extraStoreVars, handed, gw,
                       draftInbox, activeDraftId>>

\* handleConfirmDraft up to its await of saveMeal
ConfirmActiveDraft ==
    /\ ScreenShown
    /\ activeDraft # <<>>
    /\ saveMeal(ConfirmRequest(activeDraft[1]))

\* handleConfirmDraft after saveMeal: when it returned a meal the drafts with the
\* confirmed draft's id leave the list, when it threw the list stays.
ConfirmResume(op) ==
    /\ SaveMealReturn(op)
    /\ IF op.err \/ op.rows = <<>>
       THEN UNCHANGED <<drafts, activeDraftId>>
       ELSE LET next == Without(drafts, op.draftId)
            IN  /\ drafts' = next
                /\ activeDraftId' = FirstId(next)
    /\ UNCHANGED counter

\* The screen with a draft list, the draft being edited and the count of createId.
RecordStart(list, active, count, started) ==
    /\ session = TRUE
    /\ clock = MaxClock
    /\ backend = {}
    /\ backendGoal = <<>>
    /\ nextId = 1
    /\ meals = <<>>
    /\ goal = createEmptyGoal
    /\ draftInbox = <<>>
    /\ listeners = <<>>
    /\ summaryListeners = <<>>
    /\ ops = {}
    /\ calls = started
    /\ log = <<>>
    /\ last = Step("init", BaseOp)
    /\ armed = [l \in Screens |-> "none"]
    /\ consumed = <<>>
    /\ nextDraft = 1
    /\ foodLibrary = RecordLibrary
    /\ profile = createInitialState.profile
    /\ notification = createInitialState.notification
    /\ handed = NoValue
    /\ gw = IdleGateway
    /\ drafts = list
    /\ activeDraftId = active
    /\ counter = count

\* The behaviours start from three screens, each reached by the handlers below
\* and by agent calls that left the store empty: the empty screen with every id
\* still to hand out and no agent call left (editing in depth), the screen after
\* one image analysis with one agent call left, and the empty screen with one id
\* and every agent call left (saving in depth).
RecordStarts ==
    {[list |-> <<>>, active |-> 0, count |-> 0, started |-> MaxCalls],
     [list |-> <<buildImageDraft(0)>>, active |-> 2, count |-> 2, started |-> MaxCalls - 1],
     [list |-> <<>>, active |-> 0, count |-> MaxIds - 1, started |-> 0]}

InitRecord == \E start \in RecordStarts :
    RecordStart(start.list, start.active, start.count, start.started)

NextRecord ==
    \/ handleAnalyzeText
    \/ analyzeImageAsset
    \/ openManualModal
    \/ handleSelectLibraryEntry
    \/ Focus
    \/ FocusSync
    \/ closeDraftModal
    \/ handleRemoveItem
    \/ handleChangeItemField
    \/ handleChangeActiveDraftMenuName
    \/ handleAddFoodManual
    \/ handleSubmitAiPrompt
    \/ handleAddFoodImage
    \/ \E op \in ops : AddFoodImageResume(op)
    \/ ConfirmActiveDraft
    \/ \E op \in ops : ConfirmResume(op)
    \/ \E op \in ops : BackendFail(op)
    \/ \E op \in ops : BackendInsert(op)
    \/ \E op \in ops : BackendSelect(op)
    \/ \E op \in ops : SyncResume(op)

SpecRecord == InitRecord /\ [][NextRecord]_vars

----------------------------------------------------------------------------
(* Properties *)

\* Positions of the events of one kind in a log.
At(lg, kind) == {i \in DOMAIN lg : lg[i].ev = kind}

\* Every summary listener was called after the store was set to (m, g), saw (m, g),
\* and was called before the operation returned.
SummaryNotified(lg, ls, m, g) ==
    \A l \in Range(ls) : \E i \in At(lg, "set"), j \in At(lg, "summary"), k \in At(lg, "return") :
        /\ i < j /\ j < k
        /\ lg[i].sawMeals = m /\ lg[i].sawGoal = g
        /\ lg[j].l = l /\ lg[j].sawMeals = m /\ lg[j].sawGoal = g

\* Every store listener was called after the store was set to (m, g) and saw (m, g).
StoreNotified(lg, ls, m, g) ==
    \A l \in Range(ls) : \E i \in At(lg, "set"), j \in At(lg, "store") :
        /\ i < j
        /\ lg[i].sawMeals = m /\ lg[i].sawGoal = g
        /\ lg[j].l = l /\ lg[j].sawMeals = m /\ lg[j].sawGoal = g

Count(s, x) == Cardinality({i \in DOMAIN s : s[i] = x})

\* C1: every meal held by the backend and every meal in the store has at least one
\* item (an updateMeal with an empty replacement list would have to be rejected).
C1_EveryMealHasAnItem ==
    /\ \A r \in backend : Len(r.foods) >= 1
    /\ \A i \in DOMAIN meals : Len(meals[i].items) >= 1

\* C2: a saveMeal whose effective item list is empty throws before any insert is
\* issued; the store is unchanged and no store or summary listener is called.
C2_EmptySaveThrows ==
    [][(last'.step = "saveMeal" /\ buildMealFromDraft(last'.req, 0).items = <<>>)
          => /\ At(log', "throw") # {}
             /\ At(log', "insert") = {} /\ ops' = ops /\ backend' = backend
             /\ storeVars' = storeVars
             /\ At(log', "set") = {} /\ At(log', "store") = {} /\ At(log', "summary") = {}]_vars

\* C2 witness: saveMeal has just thrown on an empty item list while store and summary
\* listeners were subscribed.
C2_Witness ==
    /\ last.step = "saveMeal" /\ buildMealFromDraft(last.req, 0).items = <<>>
    /\ At(log, "throw") # {}
    /\ listeners # <<>> /\ summaryListeners # <<>>

\* C3: when the insert is answered with an error or without a row, saveMeal throws,
\* the store is as it was, no listener is called and no re-sync is started.
C3_FailedInsertLeavesStore ==
    [][(last'.step = "SaveMealResume" /\ (last'.op.err \/ last'.op.rows = <<>>))
          => /\ At(log', "throw") # {}
             /\ storeVars' = storeVars
             /\ At(log', "set") = {} /\ At(log', "store") = {} /\ At(log', "summary") = {}
             /\ At(log', "syncStart") = {}
             /\ ops' = ops \ {last'.op}]_vars

\* C3 witness: saveMeal has just resumed on a failed insert while listeners were
\* subscribed and the store already held a meal.
C3_Witness ==
    /\ last.step = "SaveMealResume" /\ last.op.err
    /\ At(log, "throw") # {}
    /\ listeners # <<>> /\ summaryListeners # <<>>
    /\ meals # <<>>

\* C4: for every row saveMeal or updateMeal sends, each component of the sent totals
\* equals the sum of that component over the sent items.
C4_TotalsAreItemSums ==
    \A op \in ops : op.kind \in {"save", "update"} =>
        \A key \in MacroKeys : op.total[key] = SumOf(op.foods, key)

\* C5: every item saveMeal sends has finite, non-negative kcal, protein, fat and carbs.
C5_SentItemsAreClamped ==
    \A op \in ops : op.kind = "save" =>
        \A i \in DOMAIN op.foods : \A key \in MacroKeys :
            IsFinite(op.foods[i][key]) /\ op.foods[i][key] >= 0

\* The drafts returned by the consumeDraftInbox calls so far, in call order.
RECURSIVE FlatGot(_)
FlatGot(cs) == IF cs = <<>> THEN <<>> ELSE FlatGot(SubSeq(cs, 1, Len(cs) - 1)) \o cs[Len(cs)].got

\* Every draft enqueued so far was returned by exactly one call or is still waiting,
\* and the calls returned the drafts in enqueue order.
DeliveredOnceInOrder == FlatGot(consumed) \o draftInbox = [i \in 1..(nextDraft - 1) |-> i]

C7_SaveOrder ==
    [][/\ (last'.step = "SaveMealResume" /\ ~last'.op.err /\ last'.op.rows # <<>>)
            => LET saved == mapMealRow(last'.op.rows[1])
                   lg == log'
               IN  /\ meals' = Append(meals, saved)
                   /\ StoreNotified(lg, listeners, meals', goal)
                   /\ SummaryNotified(lg, summaryListeners, meals', goal)
                   /\ \A i \in At(lg, "store"), j \in At(lg, "summary") : i < j
                   /\ \A i \in At(lg, "set") \cup At(lg, "store") \cup At(lg, "summary"),
                         j \in At(lg, "syncStart") : i < j
                   /\ At(lg, "syncStart") # {}
                   /\ \A i \in At(lg, "syncStart"), j \in At(lg, "return") : i < j
                   /\ At(lg, "return") # {}
                   /\ \E o \in ops' \ ops : /\ o.kind = "sync" /\ o.stage = "pending" /\ o.bg
                                            /\ o.date = DateKeyOf(saved.recordedAt)
       /\ (last'.step = "SyncResume" /\ last'.op.bg /\ last'.op.err)
            => /\ storeVars' = storeVars
               /\ At(log', "swallowed") # {} /\ At(log', "throw") = {}]_vars

\* C7 witness: a saveMeal has just succeeded with store and summary listeners subscribed.
C7_Witness ==
    /\ last.step = "SaveMealResume" /\ ~last.op.err
    /\ Len(listeners) = 2 /\ Len(summaryListeners) = 2
    /\ At(log, "syncStart") # {}
    /\ \E o \in ops : o.kind = "sync" /\ o.stage = "pending" /\ o.bg

\* Steps in which resetDietState runs.
ResetSteps == {"AuthSignedOut", "SignOutResume"}

\* C8 as stated: every step that changes meals or goal, resetDietState included, calls
\* every summary listener after the store holds the new value and before it completes.
C8_EveryChangeInvalidates ==
    [][(meals' # meals \/ goal' # goal)
          => SummaryNotified(log', summaryListeners, meals', goal')]_vars

\* C8 amended: every agent operation that changes meals or goal calls every summary
\* listener after the store holds the new value and before it returns; resetDietState
\* calls the store listeners only.
C8_AgentsInvalidate ==
    [][/\ ((meals' # meals \/ goal' # goal) /\ last'.step \notin ResetSteps)
            => SummaryNotified(log', summaryListeners, meals', goal')
       /\ (last'.step \in ResetSteps /\ At(log', "set") # {})
            => /\ At(log', "summary") = {}
               /\ StoreNotified(log', listeners, meals', goal')]_vars

\* C8 witness: setManualGoal or applyCalculatedGoal has just written a new goal while two
\* summary listeners were subscribed.
C8_Witness ==
    /\ last.step = "GoalResume" /\ ~last.op.err
    /\ Len(summaryListeners) = 2
    /\ goal # createEmptyGoal
    /\ Cardinality(At(log, "summary")) = 2

\* C9: a syncMealsByDate whose fetch was answered before an updateMeal changed the row,
\* and which writes the store after that updateMeal wrote it, leaves the store with the
\* fetched version of the meal.
C9_StaleSyncWins ==
    [][(last'.step = "SyncResume" /\ ~last'.op.err)
          => \A id \in last'.op.lost :
                LET fetched == MapRows(last'.op.rows)
                IN  /\ Find(fetched, id) # <<>>
                    /\ Find(meals', id) = Find(fetched, id)]_vars

\* C9 witness: a stale sync has just overwritten an edited meal; the store now differs
\* from the backend row of the same id.
C9_Witness ==
    /\ last.step = "SyncResume" /\ ~last.op.err
    /\ \E id \in last.op.lost : \E r \in backend :
          r.id = id /\ Find(meals, id) # <<>> /\ Find(meals, id) # <<mapMealRow(r)>>

\* C10: after a successful syncMealsByDate(d) the store's meals of date d are exactly the
\* fetched ones, the meals of other dates are all still there, the array is in ascending
\* recordedAt order and the summary was invalidated; after a failed fetch it throws and
\* the store is unchanged.
C10_SyncFrame ==
    [][(last'.step = "SyncResume")
          => LET d == last'.op.date
                 fetched == MapRows(last'.op.rows)
             IN  IF last'.op.err
                 THEN /\ storeVars' = storeVars
                      /\ At(log', "throw") \cup At(log', "swallowed") # {}
                      /\ ~last'.op.bg => At(log', "throw") # {}
                      /\ At(log', "set") = {}
                 ELSE /\ SelectSeq2(meals', MealsOn(meals', d)) = fetched
                      /\ \A m \in MealsNotOn(meals, d) \cup MealsNotOn(meals', d) :
                            Count(meals', m) = Count(meals, m)
                      /\ IsSortedByRecordedAt(meals')
                      /\ SummaryNotified(log', summaryListeners, meals', goal)
                      /\ goal' = goal /\ draftInbox' = draftInbox]_vars

\* C10 witness: a sync has just replaced one date's meals by a non-empty fetch while the
\* store also held a meal of another date and a summary listener was subscribed.
C10_Witness ==
    /\ last.step = "SyncResume" /\ ~last.op.err
    /\ last.op.rows # <<>>
    /\ MealsNotOn(meals, last.op.date) # {}
    /\ summaryListeners # <<>>

Kept(ms, after, keep) ==
    /\ \A i \in DOMAIN after : after[i] \in keep
    /\ \A m \in keep : Count(after, m) = Count(ms, m)
    /\ \A i, j \in DOMAIN after : i < j =>
          \E a, b \in DOMAIN ms : a < b /\ ms[a] = after[i] /\ ms[b] = after[j]

\* C12: a successful deleteMeal(id) leaves no store meal of that id and every other meal
\* as it was; a successful deleteMealsByDate(d) leaves no store meal of date d and every
\* meal of another date as it was; both invalidate the summary; a failed delete throws,
\* leaves the store unchanged and does not invalidate the summary.
C12_Deletes ==
    [][/\ (last'.step = "DeleteResume")
            => IF last'.op.err
               THEN /\ At(log', "throw") # {} /\ storeVars' = storeVars
                    /\ At(log', "set") = {} /\ At(log', "summary") = {}
               ELSE /\ Find(meals', last'.op.id) = <<>>
                    /\ Kept(meals, meals', {m \in Range(meals) : m.id # last'.op.id})
                    /\ SummaryNotified(log', summaryListeners, meals', goal)
                    /\ goal' = goal /\ draftInbox' = draftInbox
       /\ (last'.step = "DeleteByDateResume")
            => IF last'.op.err
               THEN /\ At(log', "throw") # {} /\ storeVars' = storeVars
                    /\ At(log', "set") = {} /\ At(log', "summary") = {}
               ELSE /\ MealsOn(meals', last'.op.date) = {}
                    /\ Kept(meals, meals', MealsNotOn(meals, last'.op.date))
                    /\ SummaryNotified(log', summaryListeners, meals', goal)
                    /\ goal' = goal /\ draftInbox' = draftInbox]_vars

\* C12 witness: after a second meal was saved, deleteMealsByDate has just succeeded: one
\* of the two rows is gone from the backend, the store holds the one meal of the other
\* date, and a summary listener was called.
C12_Witness ==
    /\ last.step = "DeleteByDateResume" /\ ~last.op.err
    /\ nextId = 3 /\ Cardinality(backend) = 1
    /\ \A op \in ops : op.kind # "save"
    /\ Len(meals) = 1 /\ DateKeyOf(meals[1].recordedAt) # last.op.date
    /\ At(log, "summary") # {}

\* C13: listMealsByDate(d) returns exactly the store's meals whose local date is d, each
\* as often as the store holds it, in ascending recordedAt order, and leaves the store's
\* array and its order as they were.
C13_ListMealsByDate ==
    [][last'.step = "listMealsByDate"
       => /\ handed'.kind = "list"
          /\ IsSortedByRecordedAt(handed'.list)
          /\ \A m \in Range(handed'.list) :
                m \in Range(meals) /\ DateKeyOf(m.recordedAt) = handed'.date
          /\ \A m \in MealsOn(meals, handed'.date) : Count(handed'.list, m) = Count(meals, m)
          /\ meals' = meals]_vars

\* C13 witness: the store holds two meals of one day with the later one first, and
\* listMealsByDate of that day has just returned both.
C13_Witness ==
    /\ last.step = "listMealsByDate"
    /\ Len(meals) = 2 /\ meals[1].recordedAt > meals[2].recordedAt
    /\ Len(handed.list) = 2
    /\ handed.list[1] = meals[2] /\ handed.list[2] = meals[1]

\* C14: what a read handed out shares nothing with the store: a caller that changes a
\* meal or the goal it was handed leaves the store as it was.
C14_HandedValuesAreCopies ==
    [][last'.step = "Mutate" => storeVars' = storeVars]_vars

\* C15: a call of setDietState installs the updater's result before any listener runs,
\* then calls every store listener subscribed at that moment exactly once, in
\* subscription order, each seeing the installed state; every call notifies by itself.
C15_SetNotifiesInOrder ==
    [][/\ \A i \in At(log', "set") :
            /\ i + Len(listeners) <= Len(log')
            /\ \A k \in 1..Len(listeners) :
                  log'[i + k] = Ev("store", listeners[k], log'[i].sawMeals, log'[i].sawGoal)
            /\ log'[i].sawMeals = meals' /\ log'[i].sawGoal = goal'
       /\ Cardinality(At(log', "store")) = Len(listeners) * Cardinality(At(log', "set"))]_vars

\* C15 witness: a save has just been stored while two screens were subscribed, and both
\* store listeners were called.
C15_Witness ==
    /\ last.step = "SaveMealResume" /\ ~last.op.err
    /\ Len(listeners) = 2
    /\ At(log, "set") # {}
    /\ Cardinality(At(log, "store")) = 2

\* C16: whatever the store held, after resetDietState it holds no meals, no food library,
\* no profile, an empty draft inbox, a goal whose macros are all 0 and notifications
\* switched off, and every store listener was called exactly once.
C16_ResetLeavesInitialState ==
    [][(last'.step \in ResetSteps /\ At(log', "set") # {})
       => /\ meals' = <<>> /\ foodLibrary' = <<>> /\ profile' = <<>> /\ draftInbox' = <<>>
          /\ \A key \in MacroKeys : goal'[key] = 0
          /\ ~notification'.enabled
          /\ \A l \in Range(listeners) :
                Cardinality({i \in At(log', "store") : log'[i].l = l}) = 1
          /\ \A i \in At(log', "store") : log'[i].l \in Range(listeners)]_vars

\* C16 witness: the first sign-out has just reset a store from which a day's summary with
\* meals and a goal had been read, while two screens were subscribed.
C16_Witness ==
    /\ last.step = "AuthSignedOut" /\ calls = 1
    /\ handed.kind = "summary" /\ handed.list # <<>> /\ handed.goal.kcal # 0
    /\ Len(listeners) = 2 /\ Cardinality(At(log, "store")) = 2
    /\ meals = <<>> /\ profile = <<>> /\ foodLibrary = <<>>

\* C17: every component of the ratio getDailySummary returns lies between 0 and 2, for
\* all totals and goals, negative ones included, and is 0 when the goal's component is 0.
C17_RatioInRange ==
    [][last'.step = "getDailySummary"
       => \A key \in MacroKeys :
             /\ 0 <= handed'.ratio[key] /\ handed'.ratio[key] <= 200
             /\ goal[key] = 0 => handed'.ratio[key] = 0]_vars

\* The sum of one component of the stored totals of the meals of a date.
RECURSIVE TotalsOfDay(_, _, _)
TotalsOfDay(ms, dateKey, key) ==
    IF ms = <<>> THEN 0
    ELSE TotalsOfDay(Tail(ms), dateKey, key)
         + (IF DateKeyOf(Head(ms).recordedAt) = dateKey THEN Head(ms).totals[key] ELSE 0)

Replied(r) == r.kind = "http" /\ Ok(r.status) /\ r.json
ReplyTexts(r) ==
    {r.content.parts[i].text :
        i \in {j \in DOMAIN r.content.parts : r.content.parts[j].type \in {"text", "output_text"}}}
HasText(r) == r.content.form \in {"string", "parts"} /\ ReplyTexts(r) \ {EmptyText} # {}
Unparsable(r) == HasText(r) /\ \E t \in ReplyTexts(r) : t.syntax = "invalid" \/ t.fence = "open"
ParsedAs(r, type) ==
    HasText(r) /\ ~Unparsable(r) /\ \E t \in ReplyTexts(r) : t.value.type = type
ItemsNotArray(r) ==
    ParsedAs(r, "object") /\ \E t \in ReplyTexts(r) : t.value.items.kind = "string"

C20_GoalSource ==
    [][(last'.step = "GoalResume" /\ At(log', "set") # {})
       => goal'.source = IF last'.op.kind = "applyCalculatedGoal" THEN "auto" ELSE "manual"]_vars

\* C26: the store never holds two meals with the same id, whatever the order in which a
\* saveMeal and a syncMealsByDate of the same date complete.
C26_OneMealPerId ==
    \A i, j \in DOMAIN meals : i # j => meals[i].id # meals[j].id

\* C29: while nobody is signed in the store is the reset one: an operation that was
\* awaiting the backend when resetDietState ran writes nothing into it.
C29_SignedOutStoreStaysEmpty ==
    ~session => meals = <<>> /\ goal = createEmptyGoal

\* deleteMeal(mealId) has just completed successfully.
DeleteDone(mealId) ==
    last.step = "DeleteResume" /\ ~last.op.err /\ last.op.id = mealId

\* C30: once deleteMeal(id) has completed successfully, the store never again holds a
\* meal with that id; in particular no step taken right after the completion puts a
\* meal with that id into the store.
C30_DeletedStaysDeleted ==
    [][\A mealId \in MealIds : DeleteDone(mealId) => Find(meals', mealId) = <<>>]_vars

\* t is s without its leading and trailing white space.
IsTrimOf(t, s) ==
    \E i, j \in 0..Len(s) :
        /\ i + j <= Len(s)
        /\ t = SubSeq(s, i + 1, Len(s) - j)
        /\ \A k \in 1..i : s[k] = " "
        /\ \A k \in (Len(s) - j + 1)..Len(s) : s[k] = " "
        /\ t # <<>> => t[1] # " " /\ t[Len(t)] # " "

\* C21: the meal saveMeal builds takes menuName, originalText and items from the
\* overrides when given and from the draft otherwise, trims both strings, replaces a
\* menu name that is blank after trimming by the default name, and copies the
\* draft's source; a draft with the one item {300, 20, 10, 30} and an empty menu name
\* saved with no overrides yields the default name and totals {300, 20, 10, 30}.
C21_BuildMealFromDraft ==
    [][last'.step = "saveMeal" =>
        LET request == last'.req
            meal == last'.meal
            menuName == IF request.menuName # <<>> THEN request.menuName[1]
                        ELSE request.draft.menuName
            originalText == IF request.originalText # <<>> THEN request.originalText[1]
                            ELSE request.draft.originalText
            NoOverrides == ~request.hasOverride /\ request.menuName = <<>>
                           /\ request.originalText = <<>>
        IN  /\ IF IsTrimOf(<<>>, menuName) THEN meal.menuName = MenuNameUnset
                ELSE IsTrimOf(meal.menuName, menuName)
            /\ IsTrimOf(meal.originalText, originalText)
            /\ meal.items = IF request.hasOverride THEN request.items ELSE request.draft.items
            /\ meal.source = request.draft.source
            /\ (/\ NoOverrides
                /\ Len(request.draft.items) = 1
                /\ [k \in MacroKeys |-> request.draft.items[1][k]]
                     = [kcal |-> 30000, protein |-> 2000, fat |-> 1000, carbs |-> 3000]
                /\ request.draft.menuName = <<>>)
               => /\ meal.menuName = MenuNameUnset
                  /\ meal.totals = [kcal |-> 30000, protein |-> 2000, fat |-> 1000,
                                     carbs |-> 3000]]_vars

\* C21 witness: the example draft was saved with no overrides, and so was a request
\* whose overrides carry a padded menu name and an item list.
C21_Witness ==
    /\ last.step = "saveMeal"
    /\ last.req.draft = ExampleDraft
    /\ ~last.req.hasOverride /\ last.req.menuName = <<>> /\ last.req.originalText = <<>>
    /\ last.meal.menuName = MenuNameUnset
    /\ last.meal.originalText = <<"t">>
    /\ last.meal.totals.kcal = 30000
    /\ last.op.kind = "save"

\* C21 witness of the override case: menu name and items come from the overrides.
C21_WitnessOverride ==
    /\ last.step = "saveMeal"
    /\ last.req.hasOverride /\ last.req.items = <<ItemOdd>>
    /\ last.req.menuName = << <<" ", "n", " ", "n", " ">> >>
    /\ last.req.draft.menuName # <<>>
    /\ last.meal.menuName = <<"n", " ", "n">>
    /\ last.meal.items = <<ItemOdd>>

\* C25: confirming a manual draft passes to saveMeal a draft in which every item name
\* is trimmed and a blank one replaced by the numbered default, a blank amount is
\* replaced by the one-portion default, every non-finite macro field is 0, totals are
\* recomputed from the normalised items, and a blank menu name is replaced by the
\* first normalised item's name; a draft of another source is passed unmodified.
C25_ConfirmNormalizesManual ==
    [][(last'.step = "saveMeal" /\ last'.req.caller # <<>>) =>
        LET given == last'.req.caller[1]
            passed == last'.req.draft
        IN  IF given.source = "manual"
            THEN /\ Len(passed.items) = Len(given.items)
                 /\ \A n \in DOMAIN given.items :
                        LET item == given.items[n]
                            out == passed.items[n]
                        IN  /\ IF IsTrimOf(<<>>, item.name) THEN out.name = FoodN(n)
                                ELSE IsTrimOf(out.name, item.name)
                            /\ IsTrimOf(<<>>, item.amount) => out.amount = OnePortion
                            /\ \A k \in MacroKeys :
                                   out[k] = IF IsFinite(item[k]) THEN item[k] ELSE 0
                 /\ passed.totals = calculateMacroFromItems(passed.items)
                 /\ IsTrimOf(<<>>, given.menuName)
                       => passed.menuName = passed.items[1].name
                 /\ passed.draftId = given.draftId
                 /\ passed.source = given.source
            ELSE passed = given]_vars

\* C25 witness: a manual draft with a blank menu name, a first item with blank name and
\* amount and a NaN field, and stale totals was confirmed and normalised.
C25_Witness ==
    /\ last.step = "saveMeal"
    /\ last.req.caller # <<>>
    /\ last.req.caller[1].source = "manual"
    /\ last.req.caller[1].menuName = <<>>
    /\ last.req.caller[1].items[1].protein = NaN
    /\ last.req.caller[1].totals # calculateMacroFromItems(last.req.draft.items)
    /\ last.req.draft.menuName = FoodN(1)
    /\ last.req.draft.items[1].name = FoodN(1)
    /\ last.req.draft.items[1].amount = OnePortion
    /\ last.req.draft.items[1].protein = 0
    /\ last.req.draft.items[2].name = <<"a">>
    /\ last.req.draft.items[3].name = FoodN(3)
    /\ last.op.kind = "save"

\* C25 witness of the other sources: a draft that is not manual was confirmed as is.
C25_WitnessOther ==
    /\ last.step = "saveMeal"
    /\ last.req.caller # <<>>
    /\ last.req.caller[1].source = "text"
    /\ last.req.caller[1].items = <<ItemOdd>>
    /\ last.req.draft = last.req.caller[1]

\* C22: in every state of the Record screen each draft's totals are
\* calculateMacroFromItems of its current items.
C22_TotalsMatchItems ==
    \A i \in DOMAIN drafts : drafts[i].totals = calculateMacroFromItems(drafts[i].items)

\* C22 witness: a field of an item was just edited in a draft of two or more items and
\* the totals are those of the edited list, which differ from the unedited one's.
C22_Witness ==
    /\ last.step = "handleChangeItemField"
    /\ \E i \in DOMAIN drafts :
          /\ drafts[i].draftId = activeDraftId
          /\ Len(drafts[i].items) >= 2
          /\ drafts[i].items[1].kcal = 0 - 5000
          /\ drafts[i].items[2].kcal > 0
          /\ drafts[i].totals = calculateMacroFromItems(drafts[i].items)
          /\ drafts[i].totals.kcal = drafts[i].items[2].kcal

\* The empty item of the confirm modal.
BlankItem == [name |-> <<>>, amount |-> OnePortion, kcal |-> 0, protein |-> 0, fat |-> 0,
              carbs |-> 0]

\* C23: removing the item at an index of the edited draft leaves the list without that
\* item, except that removing the only item leaves exactly one blank item; the list
\* is never empty afterwards.
C23_RemoveItem ==
    [][last'.step = "handleRemoveItem" =>
        LET index == last'.op.id
            old == last'.op.foods
            expected == IF Len(old) = 1 THEN <<BlankItem>>
                        ELSE [n \in 1..(Len(old) - 1) |-> IF n < index THEN old[n] ELSE old[n + 1]]
        IN  /\ activeDraft # <<>> /\ old = activeDraft[1].items /\ index \in DOMAIN old
            /\ Len(drafts') = Len(drafts)
            /\ \A i \in DOMAIN drafts :
                  IF drafts[i].draftId = activeDraftId
                  THEN /\ drafts'[i].items = expected
                       /\ Len(drafts'[i].items) > 0
                  ELSE drafts'[i] = drafts[i]]_vars

\* C23 witness: the only item of the edited draft was removed and the draft holds one
\* blank item.
C23_Witness ==
    /\ last.step = "handleRemoveItem"
    /\ Len(last.op.foods) = 1
    /\ last.op.foods[1].kcal > 0
    /\ activeDraft # <<>>
    /\ activeDraft[1].items = <<BlankItem>>

\* C23 witness of the other case: the first of two items was removed.
C23_WitnessShorter ==
    /\ last.step = "handleRemoveItem"
    /\ Len(last.op.foods) = 2
    /\ last.op.id = 1
    /\ activeDraft # <<>>
    /\ activeDraft[1].items = <<last.op.foods[2]>>

\* C24: appendItemsToDraft(draftId, newItems, warnings) makes the draft's items the old
\* ones followed by the new ones, recomputes its totals, makes its warnings the old
\* ones followed by the new ones (the old ones when there are none), leaves every
\* other draft as it was, and changes no draft when no draft has the id.
C24_AppendItems ==
    [][last'.step = "appendItemsToDraft" =>
        LET draftId == last'.op.draftId
            newItems == last'.req.draft.items
            warnings == last'.req.draft.warnings
        IN  /\ Len(drafts') = Len(drafts)
            /\ \A i \in DOMAIN drafts :
                  IF drafts[i].draftId = draftId
                  THEN /\ drafts'[i].items = drafts[i].items \o newItems
                       /\ drafts'[i].totals = calculateMacroFromItems(drafts[i].items \o newItems)
                       /\ drafts'[i].warnings = drafts[i].warnings \o warnings
                       /\ (warnings = <<>> => drafts'[i].warnings = drafts[i].warnings)
                       /\ drafts'[i] = [drafts[i] EXCEPT !.items = drafts'[i].items,
                                                         !.totals = drafts'[i].totals,
                                                         !.warnings = drafts'[i].warnings]
                  ELSE drafts'[i] = drafts[i]
            /\ ((\A i \in DOMAIN drafts : drafts[i].draftId # draftId) => drafts' = drafts)]_vars

\* C24 witness: of two drafts with different ids, the edited one got the item and the
\* warning of an image analysis after its own item, the other one is untouched.
C24_Witness ==
    /\ last.step = "appendItemsToDraft"
    /\ last.req.draft.warnings = <<DummyImageWarning>>
    /\ Len(drafts) = 2
    /\ drafts[1].draftId # drafts[2].draftId
    /\ drafts[1].draftId = last.op.draftId
    /\ drafts[1].source = "library"
    /\ drafts[1].items = <<ItemExample>> \o last.req.draft.items
    /\ drafts[1].warnings = <<DummyImageWarning>>
    /\ drafts[2].source = "library"
    /\ drafts[2].items = <<ItemExample>>

\* C24 witness of the append without warnings.
C24_WitnessNoWarnings ==
    /\ last.step = "appendItemsToDraft"
    /\ last.req.draft.warnings = <<>>
    /\ \E i \in DOMAIN drafts :
          /\ drafts[i].draftId = last.op.draftId
          /\ drafts[i].source = "image"
          /\ drafts[i].warnings = <<DummyImageWarning>>
          /\ Len(drafts[i].items) = 2

\* C24 witness of the absent id: the picture came back after the draft had gone.
C24_WitnessAbsent ==
    /\ last.step = "appendItemsToDraft"
    /\ \A i \in DOMAIN drafts : drafts[i].draftId # last.op.draftId

\* C27: a draft is persisted at most once: no two inserts made for one draft are
\* answered by the backend with a row each.
C27_DraftPersistedOnce ==
    \A a, b \in ops :
        (/\ a.kind = "save" /\ b.kind = "save"
         /\ a.draftId = b.draftId
         /\ a.rows # <<>> /\ b.rows # <<>>) => a = b

\* C28: the ids of the drafts of the Record screen's list are pairwise different.
C28_DraftIdsDistinct ==
    \A i, j \in DOMAIN drafts : i # j => drafts[i].draftId # drafts[j].draftId

====
